---- MODULE Spec2Model ----
(***************************************************************************)
(* Model of the crawl orchestrator of crawler.py: ConfigManager's          *)
(* checkpoint (save_status / load_status), CoupangCrawler.process_urls,    *)
(* CoupangCrawler._process_batch and _save_results_to_single_file.         *)
(*                                                                         *)
(* One behaviour is a sequence of invocations of process_urls (runs) that  *)
(* share the checkpoint file and the output store.  A run is split into    *)
(* the steps between which the process can be killed.  The site's answers  *)
(* (navigation failure, block verdict, session failure) are chosen by the  *)
(* environment.  In Spec the writes of the checkpoint and of the output    *)
(* store succeed.                                                          *)
(***************************************************************************)
EXTENDS Integers, Sequences, FiniteSets, TLC

\* ---------------------------------------------------------------- bounds
NumRecords == 2        \* rows of each input file
MaxBatchSize == 2      \* largest batch size a run is started with
MaxRuns == 2           \* invocations of process_urls in one behaviour
MaxStoreRows == 2      \* rows the output file can hold at the end of a run

\* ------------------------------------------------------ program constants
max_goto_retries == 3

\* Python's None in an integer slot (no index is that small)
None == -100
\* pandas' missing value: what None, an absent key and an empty cell are in
\* a DataFrame
NaN == "None"
\* the ERROR column of a row without error
NoError == NaN
\* the text the code writes for a value that is not available
NA == "NA"

Files == {"A", "B"}
\* the input file of the 3-record scenario: one row more than the others
ScenarioFile == "S"
NumRows(f) == IF f = ScenarioFile THEN NumRecords + 1 ELSE NumRecords

Min(a, b) == IF a < b THEN a ELSE b
Max(a, b) == IF a > b THEN a ELSE b

\* pd.read_excel(xlsx_file_path): the rows of the input file, in file order
Df(f) == [i \in 1..NumRows(f) |-> [URL |-> <<f, i - 1>>]]

\* df.iloc[a:b] followed by reset_index(drop=True): Python slice semantics
SliceBound(i, n) == IF i < 0 THEN Max(i + n, 0) ELSE Min(i, n)
ILocSlice(df, a, b) ==
    LET lo == SliceBound(a, Len(df))
        hi == SliceBound(b, Len(df))
    IN  [k \in 1..Max(0, hi - lo) |-> df[lo + k]]

\* columns whose cells hold text
TextColumns == {"COUPANG_PROD_NAME", "PRICE", "ORIGIN_PRICE", "COUPON_PRICE",
                "AC_PRICE", "ERROR"}

\* a text cell as pd.read_excel returns it with its default arguments
\* (keep_default_na=True): the text "NA" is one of pandas' default missing
\* value markers and comes back as NaN, like an empty cell
ReadCell(v) == IF v = NA THEN NaN ELSE v

\* pd.read_excel(file) on a file holding the rows df (written by to_excel,
\* which leaves the cell of a missing value empty)
read_excel(df) ==
    [k \in 1..Len(df) |->
        [c \in DOMAIN df[k] |->
            IF c \in TextColumns THEN ReadCell(df[k][c]) ELSE df[k][c]]]

\* ------------------------------------------------------------ checkpoint
\* the status dict of save_status
StatusDict(file_path, batch_idx_, overall_idx, blocked_url_idx) ==
    [file_path |-> file_path, last_batch |-> batch_idx_,
     last_index |-> overall_idx, blocked_url_idx |-> blocked_url_idx]

\* the dict written when the crawl completes
initial_status == StatusDict("", 0, 0, None)

VARIABLES
    \* persistent
    status,            \* content of config/crawler_status.json (status_path)
    store,             \* rows of the output file RAW/<today>_<basename>.xlsx
    cwdIsConfigDir,    \* the process runs with the config directory as cwd
    \* arguments and locals of process_urls
    pc, xlsx_file_path, batch_size, req_start, start_index, end_index,
    auto_restart, auto_validate, batch_idx,
    \* locals of _process_batch
    idx, batch_results, blocked, blocked_idx, goto_retry_count,
    browser_open, context_open,
    goto_waits,        \* wait_time of each sleep of the goto retry loop, this record
    \* history
    runNo,             \* number of runs started
    runEnd,            \* how the current run ended
    endAt,             \* original index of the record the run was blocked at
    attempted,         \* original indices whose processing started, this run
    navigated,         \* original indices passed to page.goto, this run
    storeLen0,         \* rows in the store when the run started
    postSaves,         \* last_index of each save made after a completed batch
    preSaves,          \* last_index of each save made before a batch
    validatorCalls,    \* calls of validate_and_recrawl, this run
    nav_response,      \* response of the record's last page.goto: the status,
                       \* None before the first and when the call raised
    delays,            \* the randomized sleeps between records and between
                       \* batches, this run: kind and the record or batch before
    prevEnd,           \* the block or the crash in a batch that ended the previous run
    resumedFrom,       \* prevEnd as it was when the current run started
    \* ResultValidator.validate_and_recrawl
    v_pc,              \* position in validate_and_recrawl ("off": not called)
    result_file,       \* its argument: the path of the result file
    disk,              \* the files it reads and writes: path -> rows
    input_store,       \* history: the rows of the result file when it was called
    val_df,            \* df, the DataFrame read from the result file
    error_df,          \* index labels (positions in df) of the rows of error_df
    fixed_records,     \* recrawled_results, in the order of error_df
    v_contexts,        \* history: browser contexts opened by the re-crawl
    v_open,            \* a context of the re-crawl is open
    v_log,             \* history: launches, navigations, blocks, sleeps and
                       \* closes of the re-crawl, each with its place
    written,           \* history: the to_excel calls, path and kind of data
    \* DataExtractor.detect_block
    d_pc,              \* position in detect_block ("off": not called)
    response,          \* status of the navigation response, None without one
    html_content,      \* page.content(): the characters, or Raises
    locators,          \* page.locator(selector).count() per configured selector
    title,             \* page.title(): the characters, or Raises
    detected,          \* the value returned
    \* DataExtractor.extract_product_info
    e_pc,              \* position in extract_product_info ("off": not called)
    product_data,      \* the record being filled
    retry_count,       \* its local retry_count
    extract_waits,     \* history: wait_time of each sleep between attempts
    extract_tries,     \* history: passes through the try block
    \* _save_results_to_single_file
    backup_files,      \* rows of each <output>_backup_<timestamp>.xlsx written
    \* the start of the process: import of the module, main, ConfigManager
    s_pc,              \* position in the startup ("off": not modelled)
    boots,             \* number of processes started
    config_file,       \* config/crawler_config.json: valid, missing, corrupt
    selectors_file,    \* config/selectors.json
    status_file,       \* config/crawler_status.json
    mode,              \* the command line: crawl, validate_only or config
    bad_load,          \* history: this process met a missing or unparsable
                       \* configuration or selector file when loading it
    store0,            \* history: the output store when the process started
    status0,           \* history: the checkpoint when the process started
    \* ConfigManager.save_status and load_status
    status_json,       \* the file at status_path: missing, written, damaged
    st_saves,          \* history: the save_status calls and how they went
    st_loaded,         \* what the last load_status since then returned
    \* StealthManager.setup_browser_context
    x_pc,              \* position in setup_browser_context ("off": not called)
    proxy_config,      \* the "proxy" entry of the configuration
    proxy_test,        \* what the test request through the proxy gives
    context_settings   \* the keyword arguments of browser.new_context

persist == <<status, store, cwdIsConfigDir>>
params == <<xlsx_file_path, batch_size, req_start, start_index, end_index,
            auto_restart, auto_validate>>
batchLocals == <<idx, batch_results, blocked, blocked_idx, goto_retry_count,
                 browser_open, context_open, goto_waits>>
history == <<runNo, runEnd, endAt, attempted, navigated, storeLen0, postSaves,
             preSaves, validatorCalls, prevEnd, resumedFrom>>
crawlVars ==
    <<persist, params, pc, batch_idx, batchLocals, history, delays,
      nav_response>>
valVars == <<v_pc, result_file, disk, input_store, val_df, error_df,
             fixed_records, v_contexts, v_open, v_log, written>>
detVars == <<d_pc, response, html_content, locators, title, detected>>
extVars == <<e_pc, product_data, retry_count, extract_waits, extract_tries>>
\* the variables the crawl does not touch while every write succeeds
startVars == <<s_pc, boots, config_file, selectors_file, status_file, mode,
               bad_load, store0, status0>>
stVars == <<status_json, st_saves, st_loaded>>
proxyVars == <<x_pc, proxy_config, proxy_test, context_settings>>
others == <<valVars, detVars, extVars, backup_files, startVars, stVars,
    proxyVars>>
\* the variables validate_and_recrawl does not touch
valOthers == <<crawlVars, detVars, extVars, backup_files, startVars, stVars,
    proxyVars>>
\* the variables detect_block, extract_product_info, a failed store write,
\* the startup and the checkpoint calls do not touch
detOthers == <<crawlVars, valVars, extVars, backup_files, startVars, stVars,
    proxyVars>>
extOthers == <<crawlVars, valVars, detVars, backup_files, startVars, stVars,
    proxyVars>>
saveOthers == <<valVars, detVars, extVars, startVars, stVars, proxyVars>>
startOthers == <<crawlVars, valVars, detVars, extVars, backup_files, stVars,
    proxyVars>>
stOthers == <<crawlVars, valVars, detVars, extVars, backup_files, startVars,
    proxyVars>>
\* the variables setup_browser_context does not touch
proxyOthers == <<crawlVars, valVars, detVars, extVars, backup_files,
                 startVars, stVars>>
vars == <<crawlVars, others>>

\* -------------------------------------------------- derived run values
df_to_process == ILocSlice(Df(xlsx_file_path), start_index, end_index)
total_urls == Len(df_to_process)
\* mutant: the condition is tested after the loop body, not before it
batches_left_afterBody ==
    batch_idx = 0 \/ batch_idx * batch_size < total_urls
\* the condition of the while loop over the batches
batches_left == batch_idx * batch_size < total_urls
\* mutant: a batch starts at the last record of the batch before it
batch_start_overlapping == Max(batch_idx * batch_size - 1, 0)
\* batch_start = batch_idx * batch_size
batch_start == batch_idx * batch_size
\* mutant: a batch ends after its first record
BatchEndOf_one(bstart, bsize, total) == Min(bstart + 1, total)
BatchEndOf(bstart, bsize, total) == Min(bstart + bsize, total)
batch_end == BatchEndOf(batch_start, batch_size, total_urls)
relative_idx == idx - batch_start
\* mutant: the index within the window
original_index_inWindow == idx
\* original_index = start_index + idx
original_index == start_index + idx

NoEnd == [kind |-> "none", file |-> "", at |-> None]

\* ---------------------------------------------------------- row builders
\* error_data of _process_batch's except branch (no DATE key is set)
ErrorRow(url, oi) ==
    [URL |-> url, ORIGINAL_INDEX |-> oi, COUPANG_PROD_NAME |-> NA,
     PRICE |-> NA, ORIGIN_PRICE |-> NA, COUPON |-> 0,
     COUPON_PRICE |-> NA, AC_PRICE |-> NA, EXTRACTION_TIME |-> "now",
     DATE |-> NaN, ERROR |-> "exception"]

\* product_data returned by extract_product_info for a page whose name and
\* price selectors hit
ProductRow(url, oi) ==
    [URL |-> url, ORIGINAL_INDEX |-> oi, COUPANG_PROD_NAME |-> "name",
     PRICE |-> "price", ORIGIN_PRICE |-> "price", COUPON |-> 0,
     COUPON_PRICE |-> NaN, AC_PRICE |-> NA, EXTRACTION_TIME |-> "now",
     DATE |-> "today", ERROR |-> NoError]

\* ------------------------------------------------- process_urls: start
\* end_index as set from the argument and the file length
ResolveEnd(e, n) == IF e = None THEN n ELSE Min(e, n)

\* mutant: the blocked index of the checkpoint is not used to resume
ResolveStart_noBlocked(saved_status, file, s, ar) ==
    IF ar /\ saved_status.file_path = file /\ saved_status.last_index > s
    THEN saved_status.last_index
    ELSE s

\* mutant: the checkpoint of any file is used to resume
ResolveStart_anyFile(saved_status, file, s, ar) ==
    IF ar
    THEN IF saved_status.blocked_url_idx # None
         THEN saved_status.blocked_url_idx
         ELSE IF saved_status.last_index > s
              THEN saved_status.last_index
              ELSE s
    ELSE s

\* the start index after the auto-restart block
ResolveStart(saved_status, file, s, ar) ==
    IF ar /\ saved_status.file_path = file
    THEN IF saved_status.blocked_url_idx # None
         THEN saved_status.blocked_url_idx
         ELSE IF saved_status.last_index > s
              THEN saved_status.last_index
              ELSE s
    ELSE s

\* load_status(): the checkpoint file exists (the module reads it on import)
load_status == status

StartChoices == 0..(NumRecords - 1)
EndChoices == {None, NumRecords - 1, NumRecords + 2}

\* the startup is not modelled: the configuration is there
StartOff ==
    /\ s_pc = "off"
    /\ boots = 0
    /\ config_file = "valid"
    /\ selectors_file = "valid"
    /\ status_file = "valid"
    /\ mode = "crawl"
    /\ bad_load = FALSE
    /\ store0 = <<>>
    /\ status0 = initial_status

\* setup_browser_context is not modelled: no proxy is configured
ProxyOff ==
    /\ x_pc = "off"
    /\ proxy_config = [enabled |-> FALSE, server |-> "None",
                       username |-> "None", password |-> "None"]
    /\ proxy_test = [raised |-> FALSE, status_code |-> 200,
                     body |-> "ip info"]
    /\ context_settings = {}

\* no save_status or load_status call is modelled
StOff ==
    /\ status_json = [state |-> "written", text |-> <<>>]
    /\ st_saves = <<>>
    /\ st_loaded = [called |-> FALSE, some |-> FALSE, value |-> <<>>]

\* detect_block is not running
DetOff ==
    /\ d_pc = "off"
    /\ response = None
    /\ html_content = <<>>
    /\ locators = <<>>
    /\ title = <<>>
    /\ detected = FALSE

\* extract_product_info is not running
ExtOff ==
    /\ e_pc = "off"
    /\ product_data = <<>>
    /\ retry_count = 0
    /\ extract_waits = <<>>
    /\ extract_tries = 0

\* validate_and_recrawl is not running
ValOff ==
    /\ v_pc = "off"
    /\ result_file = <<>>
    /\ disk = <<>>
    /\ input_store = <<>>
    /\ val_df = <<>>
    /\ error_df = <<>>
    /\ fixed_records = <<>>
    /\ v_contexts = 0
    /\ v_open = FALSE
    /\ v_log = <<>>
    /\ written = <<>>

\* the crawler after construction, before any run
CrawlInit ==
    /\ status = initial_status
    /\ store = <<>>
    /\ cwdIsConfigDir \in BOOLEAN
    /\ pc = "idle"
    /\ xlsx_file_path = "A"
    /\ batch_size = 1
    /\ req_start = 0
    /\ start_index = 0
    /\ end_index = 0
    /\ auto_restart = FALSE
    /\ auto_validate = FALSE
    /\ batch_idx = 0
    /\ idx = 0
    /\ batch_results = <<>>
    /\ blocked = FALSE
    /\ blocked_idx = None
    /\ goto_retry_count = 0
    /\ goto_waits = <<>>
    /\ browser_open = FALSE
    /\ context_open = FALSE
    /\ runNo = 0
    /\ runEnd = "none"
    /\ endAt = None
    /\ attempted = <<>>
    /\ navigated = <<>>
    /\ storeLen0 = 0
    /\ postSaves = <<>>
    /\ preSaves = <<>>
    /\ validatorCalls = 0
    /\ delays = <<>>
    /\ nav_response = None
    /\ prevEnd = NoEnd
    /\ resumedFrom = NoEnd

Init ==
    /\ CrawlInit /\ ValOff /\ DetOff /\ ExtOff /\ backup_files = <<>>
    /\ StartOff /\ StOff /\ ProxyOff

\* process_urls up to the batch loop: arguments, end index, resume point;
\* the input file is one of F and the output file holds at most cap rows
\* main and process_urls up to the loop, for --file in F, --start in S and
\* --end in E
StartRunFrom(F, cap, S, E) ==
    /\ pc = "idle"
    /\ runNo < MaxRuns
    /\ \E f \in F, bs \in 1..MaxBatchSize, s \in S,
          e \in E, ar \in BOOLEAN, av \in BOOLEAN :
         /\ xlsx_file_path' = f
         /\ batch_size' = bs
         /\ req_start' = s
         /\ end_index' = ResolveEnd(e, Len(Df(f)))
         /\ start_index' = ResolveStart(load_status, f, s, ar)
         /\ auto_restart' = ar
         /\ auto_validate' = av
    /\ Len(store) + Len(df_to_process)' <= cap
    /\ batch_idx' = 0
    /\ pc' = "loop"
    /\ idx' = 0
    /\ batch_results' = <<>>
    /\ blocked' = FALSE
    /\ blocked_idx' = None
    /\ goto_retry_count' = 0
    /\ goto_waits' = <<>>
    /\ browser_open' = FALSE
    /\ context_open' = FALSE
    /\ runNo' = runNo + 1
    /\ runEnd' = "running"
    /\ endAt' = None
    /\ attempted' = <<>>
    /\ navigated' = <<>>
    /\ storeLen0' = Len(store)
    /\ postSaves' = <<>>
    /\ preSaves' = <<>>
    /\ validatorCalls' = 0
    /\ delays' = <<>>
    /\ nav_response' = None
    /\ resumedFrom' = prevEnd
    /\ UNCHANGED <<persist, prevEnd>>
    /\ UNCHANGED others

StartRunOn(F, cap) == StartRunFrom(F, cap, StartChoices, EndChoices)

\* a run on one of the input files
StartRun == StartRunOn(Files, MaxStoreRows)

\* a run on the file of the 3-record scenario
StartScenario == StartRunOn({ScenarioFile}, MaxStoreRows + 1)

\* ------------------------------------------------ process_urls: batches
\* mutant: the checkpoint before a batch names the start of the window
PreBatchIndex_noBatch == start_index

\* overall index saved before a batch starts
PreBatchIndex == start_index + batch_start

\* mutant: the index after a batch is not clamped to the window
next_start_index_noClamp == start_index + batch_start + batch_size

\* overall index saved after a batch completed
next_start_index == start_index + batch_end

\* mutant: the loop stays on the batch it just processed
next_batch_idx_same == batch_idx

\* number of the batch after the current one
next_batch_idx == batch_idx + 1

\* mutant: the blocked index is relative to the window
global_blocked_idx_noStart == batch_start + blocked_idx

\* index of the blocked record in the whole input file
global_blocked_idx == start_index + batch_start + blocked_idx

\* mutant: the new rows replace the file
Concat_overwrite(existing_df, new_df) == new_df

\* pd.concat([existing_df, new_df], ignore_index=True)
Concat(existing_df, new_df) == existing_df \o new_df

\* mutant: the blocked record gets an error row
ResultsOnBlock_withRow ==
    Append(batch_results, ErrorRow(df_to_process[idx + 1].URL, original_index))

\* batch_results when detect_block is true: the break comes before any append
ResultsOnBlock == batch_results

\* mutant: a blocked batch is treated as a completed one
AfterSave_noReturn == "post_status"

\* process_urls after the rows were saved: a blocked batch ends the run
AfterSave == IF blocked THEN "blocked_status" ELSE "post_status"

\* mutant: the checkpoint is advanced without the rows being stored
AfterBatch_noSave == AfterSave

\* process_urls after _process_batch returned: the rows are saved first
AfterBatch == "save"

\* mutant: the record's page and context are left open
session_after_finally_open == TRUE

\* the finally block of a record: page.close() and context.close(); after
\* it the record's session is not open
session_after_finally == FALSE

\* get_random_wait_time(wait_type) and time.sleep: one sleep of a random
\* length between the configured bounds of the kind
Sleep(wait_type, after) == [kind |-> wait_type, after |-> after]

\* the end of the try block of a record, reached when extract_product_info
\* has returned: the wait before the next record of the batch
DelayAfterRecord ==
    IF idx < batch_end - 1
    THEN Append(delays, Sleep("url", original_index))
    ELSE delays

\* the end of the body of the while loop: the wait before the next batch
DelayAfterBatch ==
    IF batch_idx * batch_size + batch_size < total_urls
    THEN Append(delays, Sleep("batch", batch_idx))
    ELSE delays

\* the for loop of _process_batch: the step after record i was handled
AfterRecord(i) == IF i + 1 < batch_end THEN "record" ELSE "close_browser"

\* head of the while loop with a batch left: checkpoint of the batch to run
BatchBegin ==
    /\ pc = "loop"
    /\ batches_left
    /\ status' = StatusDict(xlsx_file_path, batch_idx, PreBatchIndex, None)
    /\ preSaves' = Append(preSaves, PreBatchIndex)
    /\ pc' = "launch"
    /\ UNCHANGED <<store, cwdIsConfigDir, params, batch_idx, batchLocals,
                   runNo, runEnd, endAt, attempted, navigated, storeLen0,
                   postSaves, validatorCalls, prevEnd, resumedFrom>>
    /\ UNCHANGED <<delays, nav_response>>
    /\ UNCHANGED others

\* head of the while loop with an empty window: the loop body never runs
EmptyWindow ==
    /\ pc = "loop"
    /\ ~batches_left
    /\ pc' = "finished"
    /\ runEnd' = "empty"
    /\ UNCHANGED <<persist, params, batch_idx, batchLocals, runNo, endAt,
                   attempted, navigated, storeLen0, postSaves, preSaves,
                   validatorCalls, prevEnd, resumedFrom>>
    /\ UNCHANGED <<delays, nav_response>>
    /\ UNCHANGED others

\* _process_batch entry: one browser for the batch
LaunchBrowser ==
    /\ pc = "launch"
    /\ browser_open' = TRUE
    /\ batch_results' = <<>>
    /\ blocked' = FALSE
    /\ blocked_idx' = None
    /\ idx' = batch_start
    /\ pc' = "record"
    /\ UNCHANGED <<persist, params, batch_idx, goto_retry_count,
                   goto_waits, context_open, history>>
    /\ UNCHANGED <<delays, nav_response>>
    /\ UNCHANGED others

\* a record of the batch: new context and page
OpenSession ==
    /\ pc = "record"
    /\ attempted' = Append(attempted, original_index)
    /\ context_open' = TRUE
    /\ goto_retry_count' = 0
    /\ goto_waits' = <<>>
    /\ nav_response' = None
    /\ pc' = "goto"
    /\ UNCHANGED <<persist, params, batch_idx, idx, batch_results, blocked,
                   blocked_idx, browser_open, runNo, runEnd, endAt, navigated,
                   storeLen0, postSaves, preSaves, validatorCalls, prevEnd,
                   resumedFrom>>
    /\ UNCHANGED delays
    /\ UNCHANGED others

\* mutant: every retry waits the same time
wait_time_flat(retries) == 5

\* seconds slept before the next try, after `retries` failed tries
wait_time(retries) == 5 * retries

\* what one page.goto gives: a response with its status, or an exception
\* (None), which leaves the response of the try before
GotoOutcomes == {200, 403, 503, None}

\* mutant: any response ends the retry loop
response_ok_any(r) == r # None

\* response.ok: the status is 2xx
response_ok(r) == r >= 200 /\ r <= 299

\* one page.goto of the retry loop; after a failure that leaves a try, the
\* sleep and the page.reload, whose outcome changes nothing
Goto ==
    /\ pc = "goto"
    /\ navigated' = IF goto_retry_count = 0
                    THEN Append(navigated, original_index)
                    ELSE navigated
    /\ \E out \in GotoOutcomes :
         /\ nav_response' = IF out = None THEN nav_response ELSE out
         /\ IF out # None /\ response_ok(out)
            THEN /\ pc' = "detect"
                 /\ UNCHANGED <<idx, batch_results, goto_retry_count,
                                goto_waits, context_open>>
            ELSE IF goto_retry_count + 1 < max_goto_retries
                 THEN /\ goto_retry_count' = goto_retry_count + 1
                      /\ goto_waits' = Append(goto_waits,
                                              wait_time(goto_retry_count + 1))
                      /\ pc' = "goto"
                      /\ UNCHANGED <<idx, batch_results, context_open>>
                 ELSE /\ goto_retry_count' = goto_retry_count + 1
                      /\ UNCHANGED goto_waits
                      /\ batch_results' =
                            Append(batch_results,
                                   ErrorRow(df_to_process[idx + 1].URL,
                                            original_index))
                      /\ context_open' = session_after_finally
                      /\ idx' = idx + 1
                      /\ pc' = AfterRecord(idx)
    /\ UNCHANGED <<persist, params, batch_idx, blocked, blocked_idx,
                   browser_open, runNo, runEnd, endAt, attempted, storeLen0,
                   postSaves, preSaves, validatorCalls, prevEnd, resumedFrom>>
    /\ UNCHANGED delays
    /\ UNCHANGED others

\* detect_block on the loaded page; a block ends the batch
DetectBlock ==
    /\ pc = "detect"
    /\ \E verdict \in BOOLEAN :
         IF verdict
         THEN /\ blocked' = TRUE
              /\ blocked_idx' = relative_idx
              /\ batch_results' = ResultsOnBlock
              /\ context_open' = session_after_finally
              /\ pc' = "close_browser"
         ELSE /\ pc' = "extract"
              /\ UNCHANGED <<blocked, blocked_idx, context_open,
                             batch_results>>
    /\ UNCHANGED <<persist, params, batch_idx, idx, goto_retry_count,
                   goto_waits, browser_open, history>>
    /\ UNCHANGED <<delays, nav_response>>
    /\ UNCHANGED others

\* extract_product_info and the append of its result
ExtractProductInfo ==
    /\ pc = "extract"
    /\ batch_results' =
          Append(batch_results,
                 ProductRow(df_to_process[idx + 1].URL, original_index))
    /\ context_open' = session_after_finally
    /\ delays' = DelayAfterRecord
    /\ idx' = idx + 1
    /\ pc' = AfterRecord(idx)
    /\ UNCHANGED <<persist, params, batch_idx, blocked, blocked_idx,
                   goto_retry_count, goto_waits, browser_open, history>>
    /\ UNCHANGED nav_response
    /\ UNCHANGED others

\* mutant: the browser of the batch stays open when the batch returns
browser_after_close_open == TRUE

\* browser.close() at the end of the batch, inside the with block of
\* sync_playwright: after it the browser of the batch is not running
browser_after_close == FALSE

\* browser.close() and the return of _process_batch
CloseBrowser ==
    /\ pc = "close_browser"
    /\ browser_open' = browser_after_close
    /\ pc' = AfterBatch
    /\ UNCHANGED <<persist, params, batch_idx, idx, batch_results, blocked,
                   blocked_idx, goto_retry_count, goto_waits, context_open,
                   history>>
    /\ UNCHANGED <<delays, nav_response>>
    /\ UNCHANGED others

\* _save_results_to_single_file on the batch's rows: the existing file is
\* read, the new rows are appended and the whole is written back
SaveResults ==
    /\ pc = "save"
    /\ store' = IF batch_results # <<>>
                THEN Concat(read_excel(store), batch_results)
                ELSE store
    /\ pc' = AfterSave
    /\ UNCHANGED <<status, cwdIsConfigDir, params, batch_idx, batchLocals,
                   history>>
    /\ UNCHANGED <<delays, nav_response>>
    /\ UNCHANGED others

\* the batch was not blocked: checkpoint past it, the wait before the next
\* batch when there is one, then the next batch
SaveStatusAfterBatch ==
    /\ pc = "post_status"
    /\ status' = StatusDict(xlsx_file_path, next_batch_idx, next_start_index,
                            None)
    /\ postSaves' = Append(postSaves, next_start_index)
    /\ delays' = DelayAfterBatch
    /\ batch_idx' = next_batch_idx
    /\ pc' = IF next_batch_idx * batch_size >= total_urls
             THEN "complete" ELSE "loop"
    /\ UNCHANGED <<store, cwdIsConfigDir, params, batchLocals, runNo, runEnd,
                   endAt, attempted, navigated, storeLen0, preSaves,
                   validatorCalls, prevEnd, resumedFrom>>
    /\ UNCHANGED nav_response
    /\ UNCHANGED others

\* the batch was blocked: checkpoint with the blocked index, end of the run
SaveStatusBlocked ==
    /\ pc = "blocked_status"
    /\ status' = IF blocked_idx # None
                 THEN StatusDict(xlsx_file_path, batch_idx, PreBatchIndex,
                                 global_blocked_idx)
                 ELSE status
    /\ pc' = "finished"
    /\ runEnd' = "blocked"
    /\ endAt' = original_index
    /\ UNCHANGED <<store, cwdIsConfigDir, params, batch_idx, batchLocals,
                   runNo, attempted, navigated, storeLen0, postSaves,
                   preSaves, validatorCalls, prevEnd, resumedFrom>>
    /\ UNCHANGED <<delays, nav_response>>
    /\ UNCHANGED others

\* all batches done: the status file named STATUS_FILE, relative to the
\* working directory, is rewritten if it exists there; load_status reads
\* status_path, which is that file only when the process runs in config/
ResetStatus ==
    /\ pc = "complete"
    /\ status' = IF cwdIsConfigDir THEN initial_status ELSE status
    /\ IF auto_validate /\ store # <<>>
       THEN /\ pc' = "validate"
            /\ UNCHANGED runEnd
       ELSE /\ pc' = "finished"
            /\ runEnd' = "exhausted"
    /\ UNCHANGED <<store, cwdIsConfigDir, params, batch_idx, batchLocals,
                   runNo, endAt, attempted, navigated, storeLen0, postSaves,
                   preSaves, validatorCalls, prevEnd, resumedFrom>>
    /\ UNCHANGED <<delays, nav_response>>
    /\ UNCHANGED others

\* validator.validate_and_recrawl(output_file): it writes neither the
\* checkpoint nor the output file
AutoValidate ==
    /\ pc = "validate"
    /\ validatorCalls' = validatorCalls + 1
    /\ pc' = "finished"
    /\ runEnd' = "exhausted"
    /\ UNCHANGED <<persist, params, batch_idx, batchLocals, runNo, endAt,
                   attempted, navigated, storeLen0, postSaves, preSaves,
                   prevEnd, resumedFrom>>
    /\ UNCHANGED <<delays, nav_response>>
    /\ UNCHANGED others

InBatch == pc \in {"launch", "record", "goto", "detect", "extract",
                   "close_browser", "save", "post_status"}

\* the locals of a process that has ended
Forgotten ==
    /\ xlsx_file_path' = "A"
    /\ batch_size' = 1
    /\ req_start' = 0
    /\ start_index' = 0
    /\ end_index' = 0
    /\ auto_restart' = FALSE
    /\ auto_validate' = FALSE
    /\ batch_idx' = 0
    /\ idx' = 0
    /\ batch_results' = <<>>
    /\ blocked' = FALSE
    /\ blocked_idx' = None
    /\ goto_retry_count' = 0
    /\ goto_waits' = <<>>
    /\ browser_open' = FALSE
    /\ context_open' = FALSE
    /\ runEnd' = "none"
    /\ endAt' = None
    /\ attempted' = <<>>
    /\ navigated' = <<>>
    /\ storeLen0' = 0
    /\ postSaves' = <<>>
    /\ preSaves' = <<>>
    /\ validatorCalls' = 0
    /\ delays' = <<>>
    /\ nav_response' = None
    /\ resumedFrom' = NoEnd

\* the process is killed; files keep what was written
Crash ==
    /\ pc \notin {"idle", "finished"}
    /\ pc' = "idle"
    /\ prevEnd' = IF InBatch
                  THEN [kind |-> "crashed", file |-> xlsx_file_path,
                        at |-> PreBatchIndex]
                  ELSE NoEnd
    /\ Forgotten
    /\ UNCHANGED <<persist, runNo>>
    /\ UNCHANGED others

\* process_urls has returned and the process ends; only the files remain
Exit ==
    /\ pc = "finished"
    /\ pc' = "idle"
    /\ prevEnd' = IF runEnd = "blocked"
                  THEN [kind |-> "blocked", file |-> xlsx_file_path,
                        at |-> endAt]
                  ELSE NoEnd
    /\ Forgotten
    /\ UNCHANGED <<persist, runNo>>
    /\ UNCHANGED others

Next ==
    \/ StartRun
    \/ BatchBegin
    \/ EmptyWindow
    \/ LaunchBrowser
    \/ OpenSession
    \/ Goto
    \/ DetectBlock
    \/ ExtractProductInfo
    \/ CloseBrowser
    \/ SaveResults
    \/ SaveStatusAfterBatch
    \/ SaveStatusBlocked
    \/ ResetStatus
    \/ AutoValidate
    \/ Crash
    \/ Exit

Spec == Init /\ [][Next]_vars

\* the steps process_urls takes by itself once it was called
RunStep ==
    \/ BatchBegin
    \/ EmptyWindow
    \/ LaunchBrowser
    \/ OpenSession
    \/ Goto
    \/ DetectBlock
    \/ ExtractProductInfo
    \/ CloseBrowser
    \/ SaveResults
    \/ SaveStatusAfterBatch
    \/ SaveStatusBlocked
    \/ ResetStatus
    \/ AutoValidate

\* process_urls is sequential code in one thread: every call it makes
\* returns (navigation has a timeout, every sleep is finite), so a step that
\* is possible is eventually taken
TerminationSpec == Init /\ [][Next]_vars /\ WF_vars(RunStep)

\* the runs of the scenario: the same steps on the scenario's file
ScenarioNext ==
    \/ StartScenario
    \/ BatchBegin
    \/ EmptyWindow
    \/ LaunchBrowser
    \/ OpenSession
    \/ Goto
    \/ DetectBlock
    \/ ExtractProductInfo
    \/ CloseBrowser
    \/ SaveResults
    \/ SaveStatusAfterBatch
    \/ SaveStatusBlocked
    \/ ResetStatus
    \/ AutoValidate
    \/ Crash
    \/ Exit

ScenarioSpec == Init /\ [][ScenarioNext]_vars

\* ================================================== ResultValidator
\* validate_and_recrawl(result_file) on a result file given on the command
\* line (--validate-only) or left by a crawl.  The site's answers to the
\* re-crawl are chosen by the environment.

MaxValRows == 2        \* rows of the result file given to the validator

\* a path as the pieces str.replace(".xlsx", ...) tells apart: the text
\* around the occurrences of ".xlsx", and the occurrences themselves
ResultFiles == {<<"RAW/out", ".xlsx">>, <<"RAW/out", ".xlsm">>}

\* result_file.replace(".xlsx", new)
Replace(path, new) ==
    [k \in DOMAIN path |-> IF path[k] = ".xlsx" THEN new ELSE path[k]]

orig_backup_file == Replace(result_file, "_original.xlsx")
\* the validated file of a store without error records
validated_file_clean == Replace(result_file, "_validated.xlsx")
\* the validated file of a store with error records
validated_file_today == Replace(result_file, "_validated_<today>.xlsx")

\* df.to_excel(path, index=False) on the files: a missing value is written
\* as an empty cell, which is what NaN stands for in a file
to_excel(d, path, df) ==
    [q \in DOMAIN d \cup {path} |-> IF q = path THEN df ELSE d[q]]

\* rows a crawl appends to the result file: extracted or failed fields, with
\* or without an error marker
ValRow(oi, name, price, origin, error) ==
    [URL |-> <<"A", oi>>, ORIGINAL_INDEX |-> oi, COUPANG_PROD_NAME |-> name,
     PRICE |-> price, ORIGIN_PRICE |-> origin, COUPON |-> 0,
     COUPON_PRICE |-> NaN, AC_PRICE |-> NA, ERROR |-> error]

\* the rows of one day's result file come from the input files crawled that
\* day: a row of another input file has that file's URL
ValRowKinds ==
    {[ValRow(oi, n, pr, o, e) EXCEPT !.URL = Df(f)[oi + 1].URL] :
        f \in Files, oi \in 0..(MaxValRows - 1), n \in {"name", NA},
        pr \in {"price", NA}, o \in {"price", NA},
        e \in {NoError, "exception"}}

InputRowSeqs == UNION {[1..n -> ValRowKinds] : n \in 0..MaxValRows}

\* the error mask of _identify_error_records on one row of df
error_mask(row) ==
    \/ row.ERROR # NaN
    \/ row.PRICE = "NA"
    \/ row.ORIGIN_PRICE = "NA"
    \/ row.COUPANG_PROD_NAME = "NA"

\* _identify_error_records(df): the index labels of df[error_mask]
identify_error_records(df) ==
    SelectSeq([k \in 1..Len(df) |-> k], LAMBDA k : error_mask(df[k]))

\* what the re-crawl of one error record can give
RecrawlOutcomes == {"failed", "blocked", "fixed", "partial", "exhausted"}

\* error_df.loc[error_df["ORIGINAL_INDEX"] == original_index].iloc[0]
FirstErrorRow(oi) ==
    LET hits == SelectSeq(error_df,
                          LAMBDA k : val_df[k].ORIGINAL_INDEX = oi)
    IN  val_df[hits[1]]

\* the entry of recrawled_results for the error record `row`
RecrawlResult(row, outcome) ==
    CASE outcome = "failed" ->
           \* navigation exhausted or any other exception
           [FirstErrorRow(row.ORIGINAL_INDEX) EXCEPT !.ERROR = "recrawl failed"]
      [] outcome = "blocked" ->
           \* detect_block returned true: the exception raised for it
           [FirstErrorRow(row.ORIGINAL_INDEX)
               EXCEPT !.ERROR = "recrawl failed: block detected"]
      [] outcome = "fixed" ->
           ProductRow(row.URL, row.ORIGINAL_INDEX)
      [] outcome = "partial" ->
           \* the price selectors miss: sentinels, no error marker
           [ProductRow(row.URL, row.ORIGINAL_INDEX)
               EXCEPT !.PRICE = NA, !.ORIGIN_PRICE = NA]
      [] outcome = "exhausted" ->
           \* extract_product_info gave up: defaults and an error marker
           [URL |-> row.URL, ORIGINAL_INDEX |-> row.ORIGINAL_INDEX,
            COUPANG_PROD_NAME |-> NaN, PRICE |-> NaN, ORIGIN_PRICE |-> NaN,
            COUPON |-> 0, COUPON_PRICE |-> NaN, AC_PRICE |-> NaN,
            ERROR |-> "exception"]

\* mutant: the merge leaves the error marker of the row
MergedRow_keepError(row, fixed_record) ==
    [c \in DOMAIN row |-> IF c = "ERROR" THEN row[c] ELSE fixed_record[c]]

\* a row of original_df[mask] after the merge of a record without error:
\* every column of the record is assigned, then ERROR is set to None
MergedRow(row, fixed_record) ==
    [c \in DOMAIN row |-> IF c = "ERROR" THEN NaN ELSE fixed_record[c]]

\* the body of the loop of _update_dataframe for one fixed record
UpdateOne(df, fixed_record) ==
    IF fixed_record.ERROR = NoError
    THEN [k \in 1..Len(df) |->
             IF df[k].ORIGINAL_INDEX = fixed_record.ORIGINAL_INDEX
             THEN MergedRow(df[k], fixed_record)
             ELSE df[k]]
    ELSE df

RECURSIVE update_dataframe(_, _)
\* _update_dataframe(original_df, fixed_records)
update_dataframe(original_df, records) ==
    IF records = <<>>
    THEN original_df
    ELSE update_dataframe(UpdateOne(original_df, Head(records)),
                          Tail(records))

\* the result files: some leading rows were written back by a later append
\* (read and rewritten), the others are as the last append wrote them
InputStores ==
    {read_excel(SubSeq(rows, 1, k)) \o SubSeq(rows, k + 1, Len(rows)) :
        <<rows, k>> \in {<<r, j>> \in InputRowSeqs \X (0..MaxValRows) :
                            j <= Len(r)}}

\* validate_and_recrawl is called on a result file
ValInitFrom(stores) ==
    /\ CrawlInit
    /\ cwdIsConfigDir = FALSE
    /\ v_pc = "load"
    /\ result_file \in ResultFiles
    /\ input_store \in stores
    /\ disk = [q \in {result_file} |-> input_store]
    /\ val_df = <<>>
    /\ error_df = <<>>
    /\ fixed_records = <<>>
    /\ v_contexts = 0
    /\ v_open = FALSE
    /\ v_log = <<>>
    /\ written = <<>>
    /\ DetOff
    /\ ExtOff
    /\ backup_files = <<>>
    /\ ProxyOff
    /\ StartOff
    /\ StOff

\* the file is read and the DataFrame is written to the backup path
ValBackup ==
    /\ v_pc = "load"
    /\ val_df' = read_excel(disk[result_file])
    /\ disk' = to_excel(disk, orig_backup_file, val_df')
    /\ written' = Append(written,
                         [path |-> orig_backup_file, data |-> "as read"])
    /\ v_pc' = "identify"
    /\ UNCHANGED <<result_file, input_store, error_df, fixed_records,
                   v_contexts, v_open, v_log, valOthers>>

\* the error records are identified; without any, the DataFrame is written
\* to the validated path and the call returns
ValIdentify ==
    /\ v_pc = "identify"
    /\ error_df' = identify_error_records(val_df)
    /\ IF error_df' = <<>>
       THEN /\ disk' = to_excel(disk, validated_file_clean, val_df)
            /\ written' = Append(written, [path |-> validated_file_clean,
                                           data |-> "as read"])
            /\ v_pc' = "done"
       ELSE /\ v_pc' = "launch"
            /\ UNCHANGED <<disk, written>>
    /\ UNCHANGED <<result_file, input_store, val_df, fixed_records,
                   v_contexts, v_open, v_log, valOthers>>

\* the batch_size of _recrawl_error_urls
recrawl_batch_size == 5

\* an entry of the history of the re-crawl
VEvent(e, k) == [ev |-> e, at |-> k]

\* the error record the re-crawl is at: its place in error_df, the offset i
\* of its batch and the rows of batch_df
v_place == Len(fixed_records) + 1
v_batch_offset == ((v_place - 1) \div recrawl_batch_size) * recrawl_batch_size
len_batch_df == Min(recrawl_batch_size, Len(error_df) - v_batch_offset)

\* idx of batch_df.iterrows(): the index label the row has in df, counted
\* from 0
v_idx == error_df[v_place] - 1

\* if idx < len(batch_df) - 1
url_wait_due == v_idx < len_batch_df - 1

\* _recrawl_error_urls: the browser of a batch of error records; a launch
\* failure ends the call in the handler of validate_and_recrawl, with no
\* validated file
ValLaunch ==
    /\ v_pc = "launch"
    /\ \E ok \in BOOLEAN :
         IF ok
         THEN /\ v_pc' = "recrawl"
              /\ v_log' = Append(v_log, VEvent("launch", v_batch_offset))
         ELSE /\ v_pc' = "failed"
              /\ UNCHANGED v_log
    /\ UNCHANGED <<result_file, disk, input_store, val_df, error_df,
                   fixed_records, v_contexts, v_open, written,
                   valOthers>>

\* the next error record: a context and a page of its own
ValOpenSession ==
    /\ v_pc = "recrawl"
    /\ v_contexts' = v_contexts + 1
    /\ v_open' = TRUE
    /\ v_pc' = "page"
    /\ UNCHANGED <<result_file, disk, input_store, val_df, error_df,
                   fixed_records, v_log, written, valOthers>>

\* what the re-crawl of the record leaves in the history: the navigation,
\* the block if one was detected, the wait if extract_product_info returned
RecrawlEvents(outcome) ==
    <<VEvent("goto", v_place)>>
    \o (IF outcome = "blocked" THEN <<VEvent("block", v_place)>> ELSE <<>>)
    \o (IF outcome \notin {"failed", "blocked"} /\ url_wait_due
        THEN <<VEvent("url_wait", v_place)>> ELSE <<>>)

\* the re-crawl of the record, its result or its error row, and the finally
\* block that closes the page and the context
ValRecrawl ==
    /\ v_pc = "page"
    /\ LET row == val_df[error_df[v_place]]
       IN  \E outcome \in RecrawlOutcomes :
              /\ fixed_records' =
                    Append(fixed_records, RecrawlResult(row, outcome))
              /\ v_log' = v_log \o RecrawlEvents(outcome)
    /\ v_open' = session_after_finally
    /\ v_pc' = IF v_place - v_batch_offset = len_batch_df
               THEN "close" ELSE "recrawl"
    /\ UNCHANGED <<result_file, disk, input_store, val_df, error_df,
                   v_contexts, written, valOthers>>

\* the end of a batch: browser.close(), then the wait before the next batch
\* when there is one
ValCloseBrowser ==
    /\ v_pc = "close"
    /\ LET i == Len(fixed_records) - 1
           offset == (i \div recrawl_batch_size) * recrawl_batch_size
           more == offset + recrawl_batch_size < Len(error_df)
       IN  /\ v_log' = v_log \o <<VEvent("close", offset)>>
                  \o (IF more THEN <<VEvent("batch_wait", offset)>> ELSE <<>>)
           /\ v_pc' = IF more THEN "launch" ELSE "update"
    /\ UNCHANGED <<result_file, disk, input_store, val_df, error_df,
                   fixed_records, v_contexts, v_open, written, valOthers>>

\* the results are merged into a copy of df, which is written to the
\* validated path
ValUpdate ==
    /\ v_pc = "update"
    /\ disk' = to_excel(disk, validated_file_today,
                        update_dataframe(val_df, fixed_records))
    /\ written' = Append(written,
                         [path |-> validated_file_today, data |-> "merged"])
    /\ v_pc' = "done"
    /\ UNCHANGED <<result_file, input_store, val_df, error_df,
                   fixed_records, v_contexts, v_open, v_log, valOthers>>

ValInit == ValInitFrom(InputStores)

ValNext ==
    \/ ValBackup
    \/ ValIdentify
    \/ ValLaunch
    \/ ValOpenSession
    \/ ValRecrawl
    \/ ValCloseBrowser
    \/ ValUpdate

ValidatorSpec == ValInit /\ [][ValNext]_vars

\* the re-crawl of a longer result file, with more error records than one
\* batch holds: one row per record of the input, extracted or failed
MaxRecrawlRows == 6

RecrawlStores ==
    UNION {[1..n -> {"row", "error row"}] : n \in 1..MaxRecrawlRows}

RecrawlStore(kinds) ==
    [k \in DOMAIN kinds |->
        IF kinds[k] = "row"
        THEN ValRow(k - 1, "name", "price", "price", NoError)
        ELSE ValRow(k - 1, NA, NA, NA, "exception")]

RecrawlInit == ValInitFrom({RecrawlStore(kinds) : kinds \in RecrawlStores})

RecrawlSpec == RecrawlInit /\ [][ValNext]_vars

\* the runs with any window: --start and --end may be negative, which
\* Python's slice counts from the end of the file
WindowStarts == {-2, -1} \cup StartChoices
WindowEnds == {-1} \cup EndChoices
StartWindow == StartRunFrom({"A"}, MaxStoreRows, WindowStarts, WindowEnds)

WindowInit == Init /\ cwdIsConfigDir = FALSE

WindowNext ==
    \/ StartWindow
    \/ BatchBegin
    \/ EmptyWindow
    \/ LaunchBrowser
    \/ OpenSession
    \/ Goto
    \/ DetectBlock
    \/ ExtractProductInfo
    \/ CloseBrowser
    \/ SaveResults
    \/ SaveStatusAfterBatch
    \/ SaveStatusBlocked
    \/ ResetStatus
    \/ AutoValidate
    \/ Crash
    \/ Exit

WindowSpec == WindowInit /\ [][WindowNext]_vars

\* ================================ ConfigManager.save_status, load_status
MaxSaves == 2

\* JSON values as written in the file
JsonString(v) == [t |-> "string", n |-> 0, s |-> v]
JsonNumber(v) == [t |-> "number", n |-> v, s |-> ""]
JsonNull == [t |-> "null", n |-> 0, s |-> ""]
JsonOptNumber(v) == IF v = None THEN JsonNull ELSE JsonNumber(v)

\* json.dump(status, f) of the dict built by save_status
json_dump(d) ==
    << <<"file_path", JsonString(d.file_path)>>,
       <<"last_batch", JsonNumber(d.last_batch)>>,
       <<"last_index", JsonNumber(d.last_index)>>,
       <<"blocked_url_idx", JsonOptNumber(d.blocked_url_idx)>>,
       <<"timestamp", JsonString("now")>> >>

JsonMember(text, key) == text[CHOOSE i \in DOMAIN text : text[i][1] = key][2]
JsonDecode(tok) ==
    IF tok.t = "null" THEN None ELSE IF tok.t = "number" THEN tok.n ELSE tok.s

\* json.load(f) of such a file
json_load(text) ==
    [file_path |-> JsonDecode(JsonMember(text, "file_path")),
     last_batch |-> JsonDecode(JsonMember(text, "last_batch")),
     last_index |-> JsonDecode(JsonMember(text, "last_index")),
     blocked_url_idx |-> JsonDecode(JsonMember(text, "blocked_url_idx")),
     timestamp |-> JsonDecode(JsonMember(text, "timestamp"))]

Written(d) == [state |-> "written", text |-> json_dump(d)]
Missing == [state |-> "missing", text |-> <<>>]
Damaged == [state |-> "damaged", text |-> <<>>]

\* mutant: a save without a blocked index keeps the one in the file
save_status_patch(file, d) ==
    IF file.state = "written" /\ d.blocked_url_idx = None
    THEN Written([d EXCEPT !.blocked_url_idx =
                              json_load(file.text).blocked_url_idx])
    ELSE Written(d)

\* save_status when open, dump and flush succeed: the file is replaced
save_status(file, d) == Written(d)

\* load_status: the parsed file; None when the file is missing or when
\* reading it raises
load_status_of(file) ==
    IF file.state = "written"
    THEN [called |-> TRUE, some |-> TRUE, value |-> json_load(file.text)]
    ELSE [called |-> TRUE, some |-> FALSE, value |-> <<>>]

SaveArgs ==
    {StatusDict(f, b[1], b[2], x) :
        f \in Files, b \in {<<0, 0>>, <<1, MaxBatchSize>>}, x \in {None, 1}}

StatusInit ==
    /\ CrawlInit
    /\ cwdIsConfigDir = FALSE
    /\ ValOff
    /\ DetOff
    /\ ExtOff
    /\ backup_files = <<>>
    /\ ProxyOff
    /\ StartOff
    /\ status_json \in {Missing, Damaged, Written(initial_status),
                        Written(StatusDict("A", 0, 0, 1))}
    /\ st_saves = <<>>
    /\ st_loaded = [called |-> FALSE, some |-> FALSE, value |-> <<>>]

\* save_status(file_path, batch_idx, overall_idx, blocked_url_idx): the
\* write succeeds, or open raises and the file is as before, or the file is
\* opened (and emptied) and dump or flush raises; the exception is logged
SaveStatusCall ==
    /\ Len(st_saves) < MaxSaves
    /\ \E d \in SaveArgs, outcome \in {"written", "open raised", "dump raised"} :
          /\ status_json' =
                IF outcome = "written" THEN save_status(status_json, d)
                ELSE IF outcome = "open raised" THEN status_json
                ELSE Damaged
          /\ st_saves' = Append(st_saves, [args |-> d, outcome |-> outcome])
    /\ st_loaded' = [called |-> FALSE, some |-> FALSE, value |-> <<>>]
    /\ UNCHANGED stOthers

LoadStatusCall ==
    /\ ~st_loaded.called
    /\ st_loaded' = load_status_of(status_json)
    /\ UNCHANGED <<status_json, st_saves, stOthers>>

StatusNext ==
    \/ SaveStatusCall
    \/ LoadStatusCall

StatusSpec == StatusInit /\ [][StatusNext]_vars

\* ========================================================== the startup
FileStates == {"valid", "missing", "corrupt"}
Modes == {"crawl", "validate_only", "config"}

\* mutant: a configuration that cannot be loaded is replaced by defaults
load_file_default(file_state) == "loaded"

\* load_config and load_selectors: the file's content, or sys.exit(1)
load_file(file_state) == IF file_state = "valid" THEN "loaded" ELSE "exit"

\* a process is started, in any state of the three files under config/
Boot ==
    /\ pc = "idle"
    /\ \/ s_pc \in {"off", "terminated", "done"}
       \/ s_pc = "ready" /\ boots = runNo
    /\ boots <= runNo
    /\ boots < MaxRuns
    /\ boots' = boots + 1
    /\ s_pc' = "import"
    /\ config_file' \in FileStates
    /\ selectors_file' \in FileStates
    /\ status_file' \in FileStates
    /\ mode' \in Modes
    /\ bad_load' = FALSE
    /\ store0' = store
    /\ status0' = status
    /\ UNCHANGED startOthers

\* the module is executed: the three files are opened and parsed at module
\* level, and an exception there ends the process
ImportModule ==
    /\ s_pc = "import"
    /\ bad_load' = (bad_load \/ config_file # "valid"
                             \/ selectors_file # "valid")
    /\ s_pc' = IF /\ config_file = "valid"
                  /\ status_file = "valid"
                  /\ selectors_file = "valid"
               THEN "main" ELSE "terminated"
    /\ UNCHANGED <<boots, config_file, selectors_file, status_file, mode,
                   store0, status0>>
    /\ UNCHANGED startOthers

\* main up to the construction of the ConfigManager, by CoupangCrawler or,
\* with --validate-only, by ResultValidator
Main ==
    /\ s_pc = "main"
    /\ s_pc' = "load_config"
    /\ UNCHANGED <<boots, config_file, selectors_file, status_file, mode,
                   bad_load, store0, status0>>
    /\ UNCHANGED startOthers

\* between the import and the ConfigManager a file is removed or damaged
FileChanges ==
    /\ s_pc \in {"main", "load_config", "load_selectors"}
    /\ \/ config_file' \in FileStates \ {config_file}
          /\ UNCHANGED selectors_file
       \/ selectors_file' \in FileStates \ {selectors_file}
          /\ UNCHANGED config_file
    /\ UNCHANGED <<s_pc, boots, status_file, mode, bad_load, store0, status0>>
    /\ UNCHANGED startOthers

\* self.config = self.load_config()
LoadConfig ==
    /\ s_pc = "load_config"
    /\ bad_load' = (bad_load \/ config_file # "valid")
    /\ s_pc' = IF load_file(config_file) = "loaded"
               THEN "load_selectors" ELSE "terminated"
    /\ UNCHANGED <<boots, config_file, selectors_file, status_file, mode,
                   store0, status0>>
    /\ UNCHANGED startOthers

\* self.selectors = self.load_selectors()
LoadSelectors ==
    /\ s_pc = "load_selectors"
    /\ bad_load' = (bad_load \/ selectors_file # "valid")
    /\ s_pc' = IF load_file(selectors_file) = "loaded"
               THEN "ready" ELSE "terminated"
    /\ UNCHANGED <<boots, config_file, selectors_file, status_file, mode,
                   store0, status0>>
    /\ UNCHANGED startOthers

\* main with --validate-only or --config: no crawl
NoCrawl ==
    /\ s_pc = "ready"
    /\ mode # "crawl"
    /\ s_pc' = "done"
    /\ UNCHANGED <<boots, config_file, selectors_file, status_file, mode,
                   bad_load, store0, status0>>
    /\ UNCHANGED startOthers

\* main calls process_urls
StartBooted ==
    /\ s_pc = "ready"
    /\ mode = "crawl"
    /\ boots = runNo + 1
    /\ StartRunOn({"A"}, MaxStoreRows)

StartupInit == Init /\ cwdIsConfigDir = FALSE

StartupNext ==
    \/ Boot
    \/ ImportModule
    \/ Main
    \/ FileChanges
    \/ LoadConfig
    \/ LoadSelectors
    \/ NoCrawl
    \/ StartBooted
    \/ BatchBegin
    \/ EmptyWindow
    \/ LaunchBrowser
    \/ OpenSession
    \/ Goto
    \/ DetectBlock
    \/ ExtractProductInfo
    \/ CloseBrowser
    \/ SaveResults
    \/ SaveStatusAfterBatch
    \/ SaveStatusBlocked
    \/ ResetStatus
    \/ AutoValidate
    \/ Crash
    \/ Exit

StartupSpec == StartupInit /\ [][StartupNext]_vars

\* ======================================================= failing steps
\* product_data returned by extract_product_info when its last attempt failed
ExhaustedRow(url, oi) ==
    [URL |-> url, ORIGINAL_INDEX |-> oi, COUPANG_PROD_NAME |-> NaN,
     PRICE |-> NaN, ORIGIN_PRICE |-> NaN, COUPON |-> 0,
     COUPON_PRICE |-> NaN, AC_PRICE |-> NaN, EXTRACTION_TIME |-> "now",
     DATE |-> NaN, ERROR |-> "exception"]

\* sync_playwright() or browser_instance.launch raises: the exception leaves
\* _process_batch and is caught by the handler that ends process_urls
LaunchFails ==
    /\ pc = "launch"
    /\ pc' = "finished"
    /\ runEnd' = "error"
    /\ UNCHANGED <<persist, params, batch_idx, batchLocals, runNo, endAt,
                   attempted, navigated, storeLen0, postSaves, preSaves,
                   validatorCalls, prevEnd, resumedFrom>>
    /\ UNCHANGED <<delays, nav_response>>
    /\ UNCHANGED others

\* setup_browser_context, apply_stealth_script or new_page raises: the
\* record's handler appends an error row
SessionFails ==
    /\ pc = "record"
    /\ attempted' = Append(attempted, original_index)
    /\ batch_results' =
          Append(batch_results,
                 ErrorRow(df_to_process[idx + 1].URL, original_index))
    /\ idx' = idx + 1
    /\ pc' = AfterRecord(idx)
    /\ UNCHANGED <<persist, params, batch_idx, blocked, blocked_idx,
                   goto_retry_count, goto_waits, browser_open, context_open,
                   runNo, runEnd, endAt, navigated, storeLen0, postSaves,
                   preSaves, validatorCalls, prevEnd, resumedFrom>>
    /\ UNCHANGED <<delays, nav_response>>
    /\ UNCHANGED others

\* extract_product_info gives up after its last attempt: the record it
\* returns is appended like any other
ExtractionFails ==
    /\ pc = "extract"
    /\ batch_results' =
          Append(batch_results,
                 ExhaustedRow(df_to_process[idx + 1].URL, original_index))
    /\ context_open' = session_after_finally
    /\ delays' = DelayAfterRecord
    /\ idx' = idx + 1
    /\ pc' = AfterRecord(idx)
    /\ UNCHANGED <<persist, params, batch_idx, blocked, blocked_idx,
                   goto_retry_count, goto_waits, browser_open, history>>
    /\ UNCHANGED nav_response
    /\ UNCHANGED others

\* the output file of a crawl and the backup file of a failed write
output_file == <<"RAW/<today>_<output_basename>", ".xlsx">>
backup_file == Replace(output_file, "_backup_<timestamp>.xlsx")

\* _save_results_to_single_file when reading or writing the output file
\* raises (the file is left as it was): the batch's rows go to a backup
\* file of their own, and when that write raises too the exception leaves
\* process_urls through its handler
SaveFails ==
    /\ pc = "save"
    /\ batch_results # <<>>
    /\ \E backup_written \in BOOLEAN :
         IF backup_written
         THEN /\ backup_files' = Append(backup_files, batch_results)
              /\ pc' = AfterSave
              /\ UNCHANGED runEnd
         ELSE /\ pc' = "finished"
              /\ runEnd' = "error"
              /\ UNCHANGED backup_files
    /\ UNCHANGED <<persist, params, batch_idx, batchLocals, runNo, endAt,
                   attempted, navigated, storeLen0, postSaves, preSaves,
                   validatorCalls, prevEnd, resumedFrom>>
    /\ UNCHANGED <<delays, nav_response>>
    /\ UNCHANGED saveOthers

\* the runs with failing steps: one input file, started outside config/
StartFault == StartRunOn({"A"}, MaxStoreRows)

FaultInit == Init /\ cwdIsConfigDir = FALSE

FaultNext ==
    \/ StartFault
    \/ BatchBegin
    \/ EmptyWindow
    \/ LaunchBrowser
    \/ LaunchFails
    \/ OpenSession
    \/ SessionFails
    \/ Goto
    \/ DetectBlock
    \/ ExtractProductInfo
    \/ ExtractionFails
    \/ CloseBrowser
    \/ SaveResults
    \/ SaveFails
    \/ SaveStatusAfterBatch
    \/ SaveStatusBlocked
    \/ ResetStatus
    \/ AutoValidate
    \/ Crash
    \/ Exit

FaultSpec == FaultInit /\ [][FaultNext]_vars

\* a crawl with failing steps, or a validation with its re-crawl batches:
\* every browser and every browser session
SessionInit == FaultInit \/ RecrawlInit

SessionNext ==
    \/ v_pc = "off" /\ FaultNext
    \/ pc = "idle" /\ ValNext

SessionSpec == SessionInit /\ [][SessionNext]_vars

\* ===================================== StealthManager.setup_browser_context
\* the context of one record, with the proxy of the configuration when it
\* is enabled, complete and answers the test request

\* a configured value as Python's truth test sees it: absent and empty fail
Truthy(v) == v \notin {"None", ""}

ProxyConfigs ==
    [enabled : BOOLEAN, server : {"None", "", "host:port"},
     username : {"None", "", "user"}, password : {"None", "", "secret"}]

\* requests.get(test_url, proxies=..., timeout=10): it raises (time-out,
\* refused connection), or it returns a status and a body: the JSON object
\* with the address and the location, a JSON object whose "proxy", "city"
\* or "country" member is null, JSON that is not an object, or no JSON
ProxyBodies == {"ip info", "null member", "not an object", "not json"}

ProxyTests ==
    {[raised |-> TRUE, status_code |-> None, body |-> "none"]}
    \cup [raised : {FALSE}, status_code : {200, 407, 503},
          body : ProxyBodies]

\* response.json() and the two log lines reading ip_info raise
body_read_raises(body) == body # "ip info"

\* mutant: the body of the answer is not read
proxy_test_passed_unread(t) == ~t.raised /\ t.status_code = 200

\* the try block of the proxy test ends without an exception
proxy_test_passed(t) ==
    ~t.raised /\ t.status_code = 200 /\ ~body_read_raises(t.body)

\* context_settings before the proxy is looked at
base_settings == {"viewport", "user_agent", "bypass_csp", "ignore_https_errors"}

\* context_settings when browser.new_context is called
settings_for(cfg, t) ==
    IF /\ cfg.enabled
       /\ Truthy(cfg.server) /\ Truthy(cfg.username) /\ Truthy(cfg.password)
       /\ proxy_test_passed(t)
    THEN base_settings \cup {"proxy"}
    ELSE base_settings

ProxyInit ==
    /\ CrawlInit
    /\ cwdIsConfigDir = FALSE
    /\ ValOff
    /\ DetOff
    /\ ExtOff
    /\ backup_files = <<>>
    /\ StartOff
    /\ StOff
    /\ x_pc = "call"
    /\ proxy_config \in ProxyConfigs
    /\ proxy_test \in ProxyTests
    /\ context_settings = {}

\* setup_browser_context up to the call of browser.new_context
PrepareSettings ==
    /\ x_pc = "call"
    /\ context_settings' = settings_for(proxy_config, proxy_test)
    /\ x_pc' = "new_context"
    /\ UNCHANGED <<proxy_config, proxy_test, proxyOthers>>

\* browser.new_context and set_default_cookies: the context is returned, or
\* the exception is logged and raised again to the record's handler
NewContext ==
    /\ x_pc = "new_context"
    /\ \E ok \in BOOLEAN : x_pc' = IF ok THEN "returned" ELSE "raised"
    /\ UNCHANGED <<proxy_config, proxy_test, context_settings, proxyOthers>>

ProxyNext ==
    \/ PrepareSettings
    \/ NewContext

ProxySpec == ProxyInit /\ [][ProxyNext]_vars

\* ============================================== DataExtractor.detect_block
\* A text is the sequence of its characters, one string per character; a
\* Hangul syllable is written as its romanisation.
lower_map ==
    ("A" :> "a") @@ ("B" :> "b") @@ ("C" :> "c") @@ ("D" :> "d") @@
    ("E" :> "e") @@ ("F" :> "f") @@ ("G" :> "g") @@ ("H" :> "h") @@
    ("I" :> "i") @@ ("J" :> "j") @@ ("K" :> "k") @@ ("L" :> "l") @@
    ("M" :> "m") @@ ("N" :> "n") @@ ("O" :> "o") @@ ("P" :> "p") @@
    ("Q" :> "q") @@ ("R" :> "r") @@ ("S" :> "s") @@ ("T" :> "t") @@
    ("U" :> "u") @@ ("V" :> "v") @@ ("W" :> "w") @@ ("X" :> "x") @@
    ("Y" :> "y") @@ ("Z" :> "z")

\* str.lower()
lower(text) ==
    [i \in 1..Len(text) |->
        IF text[i] \in DOMAIN lower_map THEN lower_map[text[i]] ELSE text[i]]

\* Python's  sub in text
Contains(sub, text) ==
    \E i \in 0..(Len(text) - Len(sub)) : SubSeq(text, i + 1, i + Len(sub)) = sub

access_denied ==
    <<"a", "c", "c", "e", "s", "s", " ", "d", "e", "n", "i", "e", "d">>
chadan_doeeossseumnida == <<"cha", "dan", "doe", "eoss", "seup", "ni", "da">>
bijeongsangjeogin == <<"bi", "jeong", "sang", "jeok", "in">>

block_patterns ==
    { access_denied,
      <<"aek", "se", "seu", "ga", " ">> \o chadan_doeeossseumnida,
      bijeongsangjeogin \o <<" ", "jeop", "geun">>,
      chadan_doeeossseumnida,
      <<"gwon", "han", "i", " ", "eops", "seup", "ni", "da">>,
      <<"seo", "bi", "seu", " ", "i", "yong", "e", " ", "bul", "pyeon",
        "eul", " ", "deu", "ryeo">>,
      bijeongsangjeogin \o <<" ", "teu", "rae", "pik">> }

title_keywords ==
    { <<"ro", "bot">>, <<"cha", "dan">>, <<"jeop", "geun", " ", "je", "han">> }

block_status == {403, 429, 503}

\* what a call on the page gives: the text, or an exception
Text(t) == [raised |-> FALSE, text |-> t]
Raises == [raised |-> TRUE, text |-> <<>>]

\* missing_elements: the selectors whose count() is 0 or raises
missing_elements(locs) ==
    Cardinality({i \in DOMAIN locs : locs[i] \in {"count=0", "raise"}})

\* mutant: the texts are compared as they are
block_phrase_found_cased(content) ==
    \E pattern \in block_patterns : Contains(pattern, content)

block_phrase_found(content) ==
    \E pattern \in block_patterns : Contains(lower(pattern), lower(content))

\* missing_elements >= len(selectors) / 2
too_many_missing(locs) == 2 * missing_elements(locs) >= Len(locs)

detect_block(resp, content, locs, ttl) ==
    IF resp # None /\ resp \in block_status THEN TRUE
    ELSE IF content.raised THEN FALSE
    ELSE IF block_phrase_found(content.text) THEN TRUE
    ELSE IF too_many_missing(locs) THEN TRUE
    ELSE IF ~ttl.raised /\ \E k \in title_keywords : Contains(k, ttl.text)
         THEN TRUE
    ELSE FALSE

\* the pages and responses detect_block is called on
Responses == {None, 200, 403, 404, 429, 503}
Contents ==
    { Text(<<"M", "a", "c">>),
      Text(<<"<">> \o access_denied \o <<">">>),
      Text(<<"A", "c", "c", "e", "s", "s", " ", "D", "e", "n", "i", "e",
             "d">>),
      Text(<<"A", "C", "C", "E", "S", "S", " ", " ", "D", "E", "N", "I",
             "E", "D">>),
      Text(<<"I", "P", " ">> \o chadan_doeeossseumnida),
      Text(<<"cha", "dan">>),
      Raises }
Titles ==
    { Text(<<"M", "a", "c">>),
      Text(<<"ro", "bot", "?">>),
      Text(<<"jeop", "geun", " ", " ", "je", "han">>),
      Text(<<"I", "P", " ", "cha", "dan">>),
      Raises }
LocatorOutcomes == {"count>0", "count=0", "raise"}
\* the configured block_indicators: the four defaults, or a list of three
LocatorLists ==
    [1..4 -> LocatorOutcomes] \cup [1..3 -> LocatorOutcomes]

DetInit ==
    /\ CrawlInit
    /\ cwdIsConfigDir = FALSE
    /\ ValOff
    /\ ExtOff
    /\ backup_files = <<>>
    /\ ProxyOff
    /\ StartOff
    /\ StOff
    /\ d_pc = "call"
    /\ response \in Responses
    /\ html_content \in Contents
    /\ locators \in LocatorLists
    /\ title \in Titles
    /\ detected = FALSE

DetectCall ==
    /\ d_pc = "call"
    /\ detected' = detect_block(response, html_content, locators, title)
    /\ d_pc' = "returned"
    /\ UNCHANGED <<response, html_content, locators, title, detOthers>>

DetectNext == DetectCall

DetectSpec == DetInit /\ [][DetectNext]_vars

\* ====================================== DataExtractor.extract_product_info
max_retries == 3

\* product_data is a dict: a function on the keys it has
SetItem(d, k, v) == (k :> v) @@ d
setdefault(d, k, v) == IF k \in DOMAIN d THEN d ELSE d @@ (k :> v)

\* the fields filled on the last failed attempt
exhausted_defaults(d) ==
    setdefault(
     setdefault(
      setdefault(
       setdefault(
        setdefault(
         setdefault(d, "COUPANG_PROD_NAME", NaN),
         "PRICE", NaN),
        "ORIGIN_PRICE", NaN),
       "COUPON", 0),
      "COUPON_PRICE", NaN),
     "AC_PRICE", NaN)

\* _extract_price_info when the selectors hit, without coupon or AppleCare
with_prices(d) ==
    SetItem(SetItem(SetItem(SetItem(SetItem(d,
        "PRICE", "price"), "ORIGIN_PRICE", "price"), "COUPON", 0),
        "COUPON_PRICE", NaN), "AC_PRICE", NA)

\* _extract_price_info when the price and origin price selectors all miss,
\* without coupon or AppleCare
with_missed_prices(d) ==
    SetItem(SetItem(SetItem(SetItem(SetItem(d,
        "PRICE", NA), "ORIGIN_PRICE", NA), "COUPON", 0),
        "COUPON_PRICE", NaN), "AC_PRICE", NA)

\* _extract_price_info when its own handler has caught an exception
with_no_prices(d) ==
    SetItem(SetItem(SetItem(SetItem(SetItem(d,
        "PRICE", NA), "ORIGIN_PRICE", NA), "COUPON", 0),
        "COUPON_PRICE", NA), "AC_PRICE", NA)

\* the test of the while loop and of the handler
attempts_left(retries) == retries < max_retries

\* wait_time = 5 * retry_count
extract_wait_time(retries) == 5 * retries

ExtInit ==
    /\ CrawlInit
    /\ cwdIsConfigDir = FALSE
    /\ ValOff
    /\ DetOff
    /\ backup_files = <<>>
    /\ ProxyOff
    /\ StartOff
    /\ StOff
    /\ e_pc = "try"
    /\ \E f \in Files, oi \in 0..(NumRecords - 1), prod_id \in {"None", "P1"} :
          product_data =
             IF prod_id = "None"
             THEN [URL |-> Df(f)[oi + 1].URL, ORIGINAL_INDEX |-> oi]
             ELSE [URL |-> Df(f)[oi + 1].URL, ORIGINAL_INDEX |-> oi,
                   PROD_ID |-> prod_id]
    /\ retry_count = 0
    /\ extract_waits = <<>>
    /\ extract_tries = 0

\* the except branch of extract_product_info, entered with product_data = d
ExtractFailed(d) ==
    /\ retry_count' = retry_count + 1
    /\ IF attempts_left(retry_count + 1)
       THEN /\ extract_waits' =
                  Append(extract_waits, extract_wait_time(retry_count + 1))
            /\ product_data' = d
            /\ e_pc' = "try"
       ELSE /\ product_data' =
                  SetItem(SetItem(exhausted_defaults(d),
                                  "EXTRACTION_TIME", "now"),
                          "ERROR", "exception")
            /\ e_pc' = "returned"
            /\ UNCHANGED extract_waits

\* the try block up to _extract_product_name: the name is found, or it is
\* not and the helper writes the sentinel, or an exception leaves the helper
ExtractName ==
    /\ e_pc = "try"
    /\ attempts_left(retry_count)
    /\ extract_tries' = extract_tries + 1
    /\ \/ /\ \E name \in {"name", NA} :
               product_data' = SetItem(product_data, "COUPANG_PROD_NAME", name)
          /\ e_pc' = "price"
          /\ UNCHANGED <<retry_count, extract_waits>>
       \/ ExtractFailed(product_data)
    /\ UNCHANGED extOthers

\* _extract_price_info and the return: the prices are found, or the price
\* selectors miss, or the helper catches an exception and writes the sentinels, or an exception leaves the
\* helper, before or after PRICE was set
ExtractPrice ==
    /\ e_pc = "price"
    /\ \/ /\ \E d \in {with_prices(product_data),
                       with_missed_prices(product_data),
                       with_no_prices(product_data)} :
               product_data' =
                  SetItem(SetItem(d, "EXTRACTION_TIME", "now"),
                          "DATE", "today")
          /\ e_pc' = "returned"
          /\ UNCHANGED <<retry_count, extract_waits>>
       \/ \E d \in {product_data, SetItem(product_data, "PRICE", "price")} :
             ExtractFailed(d)
    /\ UNCHANGED <<extract_tries, extOthers>>

ExtractNext ==
    \/ ExtractName
    \/ ExtractPrice

ExtractSpec == ExtInit /\ [][ExtractNext]_vars

\* ================================================================ claims
IsPrefix(a, b) == Len(a) <= Len(b) /\ SubSeq(b, 1, Len(a)) = a

\* rows the output store gained in the current run
gained == SubSeq(store, storeLen0 + 1, Len(store))
gainedIdx == [k \in 1..Len(gained) |-> gained[k].ORIGINAL_INDEX]
ButLast(q) == SubSeq(q, 1, Len(q) - 1)
EndedBlocked == pc = "finished" /\ runEnd = "blocked"
EndedExhausted == pc = "finished" /\ runEnd = "exhausted"

\* C1: when a run ends on a block detected at relative position i of a
\* batch, the checkpoint it leaves has
\* blocked_url_idx = start_index + batch_start + i, and that index is the
\* position, in the whole input file, of the record whose page was blocked.
C1_BlockedIndexPersisted ==
    EndedBlocked =>
        /\ status.blocked_url_idx
              = start_index + batch_idx * batch_size + blocked_idx
        /\ status.file_path = xlsx_file_path
        /\ Df(xlsx_file_path)[status.blocked_url_idx + 1]
              = df_to_process[idx + 1]

C1_Witness ==
    /\ EndedBlocked
    /\ blocked_idx = 0
    /\ start_index > 0
    /\ status.blocked_url_idx = start_index

\* C2: once a block is detected, the run navigates no further record (of
\* the same batch or of a later one), does not process the blocked record
\* again, and only closes the browser, saves and ends.
C2_NoNavigationAfterBlock ==
    [][(blocked /\ pc' # "idle") =>
          /\ navigated' = navigated
          /\ attempted' = attempted
          /\ blocked'
          /\ pc' \in {"close_browser", "save", "blocked_status", "finished"}]_vars

C2_Witness ==
    /\ EndedBlocked
    /\ navigated[Len(navigated)] = endAt
    /\ endAt + 1 < end_index
    /\ Len(navigated) = 1

\* C3: a run that follows a run ended by a block at index b, on the same
\* file and with auto-resume, starts at b: the records it attempts are b,
\* b+1, ... in order, and all of them up to the window end when it exhausts
\* its window.
C3_ResumeAtBlockedRecord ==
    (pc # "idle" /\ resumedFrom.kind = "blocked" /\ auto_restart
        /\ resumedFrom.file = xlsx_file_path)
    => /\ start_index = resumedFrom.at
       /\ \A k \in 1..Len(attempted) : attempted[k] = resumedFrom.at + (k - 1)
       /\ EndedExhausted => Len(attempted) = end_index - resumedFrom.at

C3_Witness ==
    /\ EndedExhausted
    /\ resumedFrom.kind = "blocked"
    /\ resumedFrom.file = xlsx_file_path
    /\ auto_restart
    /\ req_start = 0
    /\ resumedFrom.at = 1
    /\ attempted = <<1>>

\* the start index as the resume rule states it
C4_Expected(saved, f, s, ar) ==
    IF ar /\ saved.file_path = f /\ saved.blocked_url_idx # None
    THEN saved.blocked_url_idx
    ELSE IF ar /\ saved.file_path = f /\ saved.last_index > s
         THEN saved.last_index
         ELSE s

\* C4: the start index process_urls resolves is the checkpoint's
\* blocked_url_idx when auto-resume is on, the checkpoint is of the same
\* file and has a blocked index; else the checkpoint's last_index when
\* auto-resume is on, the file matches and last_index exceeds the requested
\* start; else the requested start.
C4_ResolvedStart ==
    [][(pc = "idle" /\ pc' = "loop") =>
          start_index' = C4_Expected(status, xlsx_file_path', req_start',
                                     auto_restart')]_vars

C4_Witness ==
    /\ pc = "loop"
    /\ auto_restart
    /\ status.file_path = xlsx_file_path
    /\ status.blocked_url_idx = None
    /\ status.last_index > req_start
    /\ start_index = status.last_index

\* C5: after a run exhausted its window without a block, the checkpoint
\* load_status reads is the empty one.
C5_CheckpointReset ==
    EndedExhausted => status = initial_status

\* C6: with no block, the k-th checkpoint written after a completed batch
\* has last_index = start_index + min(k * batch_size, window length),
\* greater than the one before it, and it is the checkpoint on file when
\* the next batch is about to start.
C6_LastIndexAfterBatch ==
    /\ \A k \in 1..Len(postSaves) :
          /\ postSaves[k]
                = start_index + Min(k * batch_size, end_index - start_index)
          /\ k > 1 => postSaves[k] > postSaves[k - 1]
    /\ (pc = "loop" /\ batch_idx > 0) =>
          /\ Len(postSaves) = batch_idx
          /\ status.last_index = postSaves[batch_idx]
          /\ status.blocked_url_idx = None

C6_Witness ==
    /\ Len(postSaves) = 2
    /\ postSaves[2] = postSaves[1] + 1
    /\ start_index = 0

C8_Stored ==
    (pc # "idle" /\ preSaves # <<>> /\ status.file_path = xlsx_file_path)
    => \A j \in start_index..(status.last_index - 1) :
          \E k \in (storeLen0 + 1)..Len(store) :
             /\ store[k].ORIGINAL_INDEX = j
             /\ store[k].URL = Df(xlsx_file_path)[j + 1].URL

\* C8 as stated: at every point where the process can be killed, every
\* record of the window below the checkpoint's last_index has its row in the
\* store (the rows of a batch are stored before the checkpoint moves past
\* it), and every step keeps the rows already stored, cell for cell, as a
\* prefix of the store.
C8_RowsBeforeCheckpoint ==
    [][C8_Stored' /\ IsPrefix(store, store')]_vars

\* C8 amended: the same, with the rows already stored kept in order as a
\* prefix of the store up to the cells holding the text "NA", which an
\* append writes back empty.
C8_RowsBeforeCheckpointAsRead ==
    [][/\ C8_Stored'
       /\ IsPrefix(read_excel(store), read_excel(store'))
       /\ Len(store') >= Len(store)]_vars

C8_Witness ==
    /\ pc = "complete"
    /\ storeLen0 = 1
    /\ Len(store) = 2
    /\ store[1].AC_PRICE = NaN
    /\ store[2].AC_PRICE = NA
    /\ status.last_index = start_index + 1
    /\ status.file_path = xlsx_file_path

\* the checkpoint on file while batch k is processed names batch k
C9_CheckpointNamesBatch ==
    InBatch => status = StatusDict(xlsx_file_path, batch_idx,
                                   start_index + batch_idx * batch_size, None)

C10_RowsBeforeBlock ==
    EndedBlocked =>
        LET b == start_index + batch_idx * batch_size
            i == blocked_idx
        IN  /\ Len(gained) = batch_idx * batch_size + i
            /\ \A m \in 1..i :
                  gained[Len(gained) - i + m].ORIGINAL_INDEX = b + m - 1
            /\ \A k \in 1..Len(gained) : gained[k].ORIGINAL_INDEX < b + i

C10_Witness ==
    /\ EndedBlocked
    /\ blocked_idx = 1
    /\ Len(gained) = 1
    /\ gained[1].ORIGINAL_INDEX = start_index

\* ---------------------------------------------------------------- C11
\* ceil(N / B) for the window and the batch size of the current run
NumBatches == (total_urls + batch_size - 1) \div batch_size
\* records of the k-th batch: from the save before it to the save after it
BatchSizes ==
    [k \in 1..Len(postSaves) |-> postSaves[k] - preSaves[k]]
\* the batches of a run that exhausted its window of N records: ceil(N/B)
\* batches, each of B records but a last one of N - B*(ceil(N/B)-1), and N
\* new rows
C11_BatchesAndRows ==
    /\ batch_idx = NumBatches
    /\ Len(postSaves) = NumBatches
    /\ Len(preSaves) = NumBatches
    /\ \A k \in 1..NumBatches :
          BatchSizes[k] = IF k < NumBatches
                          THEN batch_size
                          ELSE total_urls - batch_size * (NumBatches - 1)
    /\ Len(gained) = total_urls

C18_Bounded ==
    /\ goto_retry_count <= 3
    /\ Len(goto_waits) <= 2
    /\ \A k \in 1..Len(goto_waits) : goto_waits[k] = 5 * k
    /\ pc = "goto" => /\ goto_retry_count < 3
                      /\ Len(goto_waits) = goto_retry_count

\* the row and the step that follow the failure of the third try
C18_Exhausted ==
    /\ Len(batch_results') = Len(batch_results) + 1
    /\ SubSeq(batch_results', 1, Len(batch_results)) = batch_results
    /\ LET row == batch_results'[Len(batch_results')]
       IN  /\ row.URL = df_to_process[idx + 1].URL
           /\ row.ORIGINAL_INDEX = original_index
           /\ row.ERROR # NoError
           /\ row.COUPANG_PROD_NAME = "NA"
           /\ row.PRICE = "NA"
           /\ row.ORIGIN_PRICE = "NA"
           /\ row.COUPON_PRICE = "NA"
           /\ row.AC_PRICE = "NA"
    /\ ~blocked'
    /\ idx' = idx + 1
    /\ pc' = IF idx + 1 < batch_end THEN "record" ELSE "close_browser"

\* C18: for every record page.goto is tried at most 3 times, the k-th retry
\* comes after a sleep of 5 * k seconds (k failed tries), and when the third
\* try fails one error row with sentinel fields and an error marker is
\* appended for the record and the batch goes on with its next record.
C18_NavigationRetries ==
    [][/\ C18_Bounded'
       /\ (pc = "goto" /\ pc' # "idle" /\ goto_retry_count' = 3)
             => C18_Exhausted]_vars

C18_Witness ==
    /\ pc = "record"
    /\ goto_retry_count = 3
    /\ goto_waits = <<5, 10>>
    /\ idx = batch_start + 1
    /\ Len(batch_results) = 1
    /\ batch_results[1].ERROR # NoError
    /\ batch_results[1].PRICE = "NA"

\* ------------------------------------------------------- C12 .. C16
\* the rule that defines an error record, on a row of the output store
C12_Rule(row) ==
    \/ row.ERROR # NoError
    \/ row.PRICE = "NA"
    \/ row.ORIGIN_PRICE = "NA"
    \/ row.COUPANG_PROD_NAME = "NA"

Identified ==
    v_pc \in {"launch", "recrawl", "page", "close", "update", "done",
             "failed"}

\* C12: once the error records are identified, a row of the output store
\* is among them if and only if its ERROR is set or its PRICE, its
\* ORIGIN_PRICE or its COUPANG_PROD_NAME is the sentinel "NA".
C12_SelectsByRule ==
    Identified =>
        \A k \in 1..Len(input_store) :
            (\E j \in 1..Len(error_df) : error_df[j] = k)
                <=> C12_Rule(input_store[k])

\* C13: a validation of a store without error records opens no browser
\* context and writes a validated store equal, row for row and field for
\* field, to the input store.
C13_CleanStoreCopied ==
    (v_pc = "done" /\ \A k \in 1..Len(input_store) : ~C12_Rule(input_store[k]))
    => /\ v_contexts = 0
       /\ written[Len(written)].path = validated_file_clean
       /\ disk[validated_file_clean] = input_store

Merged == v_pc = "done" /\ fixed_records # <<>>

\* C14: after the merge, the row of every error record whose re-crawl
\* failed again is, in the validated store, what it was in df before the
\* re-crawl, ERROR included.
C14_FailedRecrawlKeepsRow ==
    Merged =>
        \A k \in 1..Len(fixed_records) :
            fixed_records[k].ERROR # NoError
            => disk[validated_file_today][error_df[k]] = val_df[error_df[k]]

\* the last re-crawl result without error for the index oi
LastFix(oi) ==
    LET good == {m \in 1..Len(fixed_records) :
                    /\ fixed_records[m].ERROR = NoError
                    /\ fixed_records[m].ORIGINAL_INDEX = oi}
    IN  fixed_records[CHOOSE m \in good : \A n \in good : n <= m]

\* C15: after the merge, every row of the store whose ORIGINAL_INDEX is the
\* one of a re-crawl result without error has, column by column, the values
\* of such a result (the last one for that index) and an empty ERROR.
C15_FixOverwritesAndClears ==
    Merged =>
        \A k \in 1..Len(fixed_records) :
            fixed_records[k].ERROR = NoError
            => \A j \in 1..Len(val_df) :
                  val_df[j].ORIGINAL_INDEX = fixed_records[k].ORIGINAL_INDEX
                  => LET row == disk[validated_file_today][j]
                         fix == LastFix(val_df[j].ORIGINAL_INDEX)
                     IN  /\ row.ERROR = NaN
                         /\ \A c \in DOMAIN row \ {"ERROR"} : row[c] = fix[c]

C15_Witness ==
    /\ Merged
    /\ Len(fixed_records) = 1
    /\ fixed_records[1].ERROR = NoError
    /\ val_df[error_df[1]].ERROR = "exception"
    /\ disk[validated_file_today][error_df[1]].ERROR = NaN
    /\ disk[validated_file_today][error_df[1]].PRICE = "price"

\* C16: in a validation run the backup path, the validated path and the
\* path of the result file are pairwise distinct, the backup holds the
\* DataFrame as it was read, no merged data is written to the backup or to
\* the result file, and the result file is not written at all.
C16_DistinctPaths ==
    v_pc # "off" =>
        /\ orig_backup_file # result_file
        /\ validated_file_clean # result_file
        /\ validated_file_today # result_file
        /\ orig_backup_file # validated_file_clean
        /\ orig_backup_file # validated_file_today
        /\ written # <<>> => disk[orig_backup_file] = val_df
        /\ \A k \in 1..Len(written) :
              /\ written[k].path # result_file
              /\ written[k].data = "merged"
                    => written[k].path # orig_backup_file
        /\ disk[result_file] = input_store

\* ---------------------------------------------------------------- C17
page_has_phrase ==
    /\ ~html_content.raised
    /\ \E pattern \in block_patterns :
          \E i \in 0..(Len(html_content.text) - Len(pattern)) :
             \A j \in 1..Len(pattern) :
                lower(<<html_content.text[i + j]>>) = lower(<<pattern[j]>>)
absent_selectors == {i \in DOMAIN locators : locators[i] = "count=0"}
unseen_selectors == {i \in DOMAIN locators : locators[i] # "count>0"}
title_is_suspicious ==
    /\ ~title.raised
    /\ \E k \in title_keywords : Contains(k, title.text)

\* C17: detect_block returns true if and only if the response status is 403,
\* 429 or 503, or the page content contains a block phrase whatever the
\* case of its letters, or the absent selectors are at least half of the
\* configured list, or the page title contains a suspicious keyword.
C17_VerdictIffAnySignal ==
    d_pc = "returned" =>
        (detected <=>
            \/ response \in block_status
            \/ page_has_phrase
            \/ 2 * Cardinality(absent_selectors) >= Len(locators)
            \/ title_is_suspicious)

\* C17 amended: detect_block returns true if and only if the response
\* status is 403, 429 or 503, or the page content can be read and one of
\* these holds: it contains a block phrase whatever the case of its letters;
\* the selectors that are absent or whose lookup fails are at least half of
\* the configured list; the title can be read and contains a suspicious
\* keyword.
C17_VerdictIffAnySignalOnReadablePage ==
    d_pc = "returned" =>
        (detected <=>
            \/ response \in block_status
            \/ /\ ~html_content.raised
               /\ \/ page_has_phrase
                  \/ 2 * Cardinality(unseen_selectors) >= Len(locators)
                  \/ title_is_suspicious)

\* a normal response, a page whose only signal is a phrase in capitals
C17_Witness ==
    /\ d_pc = "returned"
    /\ detected
    /\ response = 200
    /\ html_content.text[1] = "A"
    /\ Cardinality(unseen_selectors) = 1
    /\ Len(locators) = 4
    /\ ~title_is_suspicious

\* ---------------------------------------------------------------- C19
data_fields ==
    {"COUPANG_PROD_NAME", "PRICE", "ORIGIN_PRICE", "COUPON_PRICE", "AC_PRICE"}
ExtractExhausted == e_pc = "returned" /\ "ERROR" \in DOMAIN product_data

\* the attempts are at most 3 and the k-th wait is 5 * k seconds
C19_BoundedAttempts ==
    /\ extract_tries <= 3
    /\ Len(extract_waits) <= 2
    /\ \A k \in 1..Len(extract_waits) : extract_waits[k] = 5 * k
    /\ e_pc = "try" => Len(extract_waits) = extract_tries

\* C19: extract_product_info makes at most 3 attempts, waiting 5 seconds
\* times the attempt number between them; when the third attempt fails the
\* record it returns has the sentinel in every data field (product name,
\* price, origin price, coupon price, AppleCare price) and ERROR set.
C19_ExhaustedReturnsSentinels ==
    /\ C19_BoundedAttempts
    /\ ExtractExhausted =>
          /\ extract_tries = 3
          /\ \A f \in data_fields :
                f \in DOMAIN product_data /\ product_data[f] = NA
          /\ product_data["ERROR"] # NoError

\* ---------------------------------------------------------------- C20
\* a run that has ended without a block has gone through its whole window
C20_WindowDone ==
    (pc = "finished" /\ runEnd # "blocked") => Len(attempted) = total_urls

\* a record's processing that ends without a block leaves one more row, and
\* neither the launch of a batch's browser nor the write of its rows ends
\* the run
C20_Recovered ==
    /\ (pc \in {"record", "goto", "extract"} /\ pc' # "idle" /\ idx' # idx)
          => Len(batch_results') = Len(batch_results) + 1
    /\ (pc \in {"launch", "save"} /\ pc' # "idle") => pc' # "finished"

\* C20: once crawling has started, a run ends before its window is
\* exhausted only when a block is detected; a failure of session creation,
\* navigation, extraction, browser launch or store write becomes an error
\* row or a checkpoint, and the run goes on to the next record or batch.
C20_OnlyBlockEndsRun ==
    []C20_WindowDone /\ [][C20_Recovered]_vars

\* ---------------------------------------------------------------- C21
\* C21: when the configuration file or the selector file is missing or
\* cannot be parsed, the process ends at startup: it navigates no page,
\* appends no row to the output store and writes no checkpoint.
C21_BadConfigEndsAtStartup ==
    bad_load =>
        /\ s_pc = "terminated"
        /\ pc = "idle"
        /\ navigated = <<>>
        /\ store = store0
        /\ status = status0

\* a second process, after a first one that crawled, finds the selector
\* file damaged between the import and the ConfigManager
C21_Witness ==
    /\ bad_load
    /\ boots = 2
    /\ store # <<>>
    /\ config_file = "valid"
    /\ selectors_file = "corrupt"
    /\ status_file = "valid"

\* ---------------------------------------------------------------- C22
\* a step of _save_results_to_single_file in which the write of the output
\* store failed
StoreWriteFailed ==
    pc = "save" /\ batch_results # <<>> /\ store' = store /\ pc' # "idle"

\* C22: when the write of the combined output store fails, all rows of the
\* batch are written to a backup file whose path is not the output store's,
\* and the run goes on with the checkpoint update and the next batch.
C22_BackupOnWriteFailure ==
    [][StoreWriteFailed =>
          /\ backup_file # output_file
          /\ backup_files' = Append(backup_files, batch_results)
          /\ pc' = AfterSave]_vars

\* ---------------------------------------------------------------- C23
LastSave == st_saves[Len(st_saves)]
ReturnsArgsOf(d) ==
    /\ st_loaded.some
    /\ st_loaded.value.file_path = d.file_path
    /\ st_loaded.value.last_batch = d.last_batch
    /\ st_loaded.value.last_index = d.last_index
    /\ st_loaded.value.blocked_url_idx = d.blocked_url_idx

\* C23: after any sequence of save_status calls load_status returns exactly
\* the arguments of the last save, with an empty blocked_url_idx when that
\* save had none, whatever the checkpoint held before; load_status returns
\* none when no checkpoint file exists.
C23_LoadReturnsLastSave ==
    st_loaded.called =>
        /\ st_saves # <<>> => ReturnsArgsOf(LastSave.args)
        /\ status_json.state = "missing" => ~st_loaded.some

\* C23 amended: the same after a sequence of save_status calls whose last
\* one was written; load_status returns none when no checkpoint file
\* exists or the file cannot be parsed.
C23_LoadReturnsLastWrittenSave ==
    st_loaded.called =>
        /\ (st_saves # <<>> /\ LastSave.outcome = "written")
              => ReturnsArgsOf(LastSave.args)
        /\ status_json.state \in {"missing", "damaged"} => ~st_loaded.some

\* a save with a blocked index, then one without: the loaded one has none
C23_Witness ==
    /\ st_loaded.called
    /\ Len(st_saves) = 2
    /\ st_saves[1].outcome = "written"
    /\ st_saves[1].args.blocked_url_idx = 1
    /\ st_saves[2].outcome = "written"
    /\ st_saves[2].args.blocked_url_idx = None
    /\ st_loaded.value.blocked_url_idx = None

\* ---------------------------------------------------------------- C24
schema_text_fields ==
    {"COUPANG_PROD_NAME", "PRICE", "ORIGIN_PRICE", "COUPON_PRICE",
     "AC_PRICE", "EXTRACTION_TIME", "DATE"}
schema_fields == {"URL", "ORIGINAL_INDEX", "COUPON"} \cup schema_text_fields

\* C24: every record the orchestrator appends to the rows of a batch, on
\* success and on every failure path, has a value in each field of the
\* schema, and a field without a real value holds the text "NA": none is
\* absent or null.
C24_EveryFieldHasValue ==
    \A k \in DOMAIN batch_results :
       /\ schema_fields \subseteq DOMAIN batch_results[k]
       /\ \A f \in schema_text_fields : batch_results[k][f] # NaN

\* ---------------------------------------------------------------- C25
\* the row names a record of the input file and carries that record's URL
NamesItsRecord(row) ==
    /\ row.ORIGINAL_INDEX \in 0..(Len(Df(xlsx_file_path)) - 1)
    /\ row.URL = Df(xlsx_file_path)[row.ORIGINAL_INDEX + 1].URL
    /\ row.URL = <<xlsx_file_path, row.ORIGINAL_INDEX>>

StrictlyIncreasing(q) == \A i, j \in DOMAIN q : i < j => q[i] < q[j]

\* C26: within one run the records are attempted in strictly increasing
\* order of their index in the input, so none is attempted twice, and the
\* batches are begun in strictly increasing order of batch index.
C26_AttemptsInOrder ==
    /\ StrictlyIncreasing(attempted)
    /\ StrictlyIncreasing(preSaves)
    /\ pc \notin {"idle", "loop", "complete", "validate", "finished"}
          => Len(preSaves) = batch_idx + 1

\* a run of two batches, one record attempted in each
C26_Witness ==
    /\ Len(attempted) = 2
    /\ Len(preSaves) = 2
    /\ batch_idx = 1
    /\ batch_size = 1
    /\ pc = "goto"

C28_Exhausted == pc = "finished" /\ runEnd \in {"exhausted", "empty"}

\* every record attempted by the run has its row in the output store
C28_RowsStored == Len(store) = storeLen0 + Len(attempted)

\* C28: a run that exhausts its window without a block with auto-validate
\* enabled invokes the validator exactly once, and invokes it when the rows
\* of the last batch are in the output store; a run that ended on a block
\* or that has auto-validate disabled never invokes it.
C28_ValidatesOnceAfterLastBatch ==
    /\ (C28_Exhausted /\ auto_validate) => validatorCalls = 1
    /\ pc = "validate" => C28_RowsStored
    /\ (runEnd = "blocked" \/ ~auto_validate) => validatorCalls = 0
    /\ validatorCalls <= 1

\* ---------------------------------------------------------------- C29
\* the row of a record whose product name was parsed and whose price
\* selectors all missed, as extract_product_info returns it
C29_PriceMissRow(oi) ==
    SetItem(with_missed_prices(
                SetItem([URL |-> <<"A", oi>>, ORIGINAL_INDEX |-> oi],
                        "COUPANG_PROD_NAME", "name")),
            "ERROR", NoError)

\* the row in the output store is that row, as appended or as written back
\* by a later append
C29_IsPriceMissRow(row) ==
    \E r \in {C29_PriceMissRow(row.ORIGINAL_INDEX)} :
        row \in {r, read_excel(<<r>>)[1]}

\* C29: the row of a record whose price selectors all miss while its name
\* selector hits has PRICE = "NA", the parsed name and no ERROR, and once
\* in the output store it is among the error records that the validator
\* identifies.
C29_PriceMissIsErrorRecord ==
    /\ \A oi \in 0..(MaxValRows - 1) :
          /\ C29_PriceMissRow(oi).PRICE = "NA"
          /\ C29_PriceMissRow(oi).COUPANG_PROD_NAME = "name"
          /\ C29_PriceMissRow(oi).ERROR = NoError
    /\ Identified =>
          \A k \in 1..Len(input_store) :
              C29_IsPriceMissRow(input_store[k])
                  => \E j \in 1..Len(error_df) : error_df[j] = k

\* ---------------------------------------------------------------- C30
\* the sleeps of one kind made after one record or batch
C30_Delays(wait_type, after) ==
    Cardinality({k \in DOMAIN delays : delays[k] = Sleep(wait_type, after)})

\* the record or the batch a sleep was made after is not the last one
C30_NotAfterLast(d) ==
    IF d.kind = "url"
    THEN /\ (d.after - start_index + 1) % batch_size # 0
         /\ d.after - start_index + 1 < total_urls
    ELSE (d.after + 1) * batch_size < total_urls

\* C30: when a record that is not the first of its batch is about to be
\* navigated to, exactly one per-record delay was made after the record
\* before it, whether that one ended in a product row or in an error row;
\* when a batch that is not the first starts, exactly one per-batch delay
\* was made after the batch before it; no delay is made after the last
\* record of a batch or after the last batch.
C30_OneDelayBetween ==
    /\ (pc = "goto" /\ relative_idx > 0)
          => C30_Delays("url", original_index - 1) = 1
    /\ (pc = "launch" /\ batch_idx > 0)
          => C30_Delays("batch", batch_idx - 1) = 1
    /\ \A k \in DOMAIN delays : C30_NotAfterLast(delays[k])

\* ---------------------------------------------------------------- C31
\* the entries of one kind the history of the re-crawl has for one place
C31_Logged(e, k) ==
    Cardinality({j \in DOMAIN v_log : v_log[j] = VEvent(e, k)})

\* C31: when the re-crawl comes to an error record that is not the first
\* of its batch, exactly one per-record delay was made after the record
\* before it, wherever the error rows stand in the output store.
C31_DelayBetweenRecrawls ==
    (v_pc = "page" /\ v_place - v_batch_offset > 1)
        => C31_Logged("url_wait", v_place - 1) = 1

\* ---------------------------------------------------------------- C32
\* C32: once a block was detected while an error record was re-crawled, no
\* later error record, of the same batch or of a later one, is navigated
\* to in that call of the validator.
C32_BlockEndsRecrawl ==
    \A i, j \in DOMAIN v_log :
        (i < j /\ v_log[i].ev = "block") => v_log[j].ev # "goto"

\* ---------------------------------------------------------------- C33
\* a field holds a value parsed from a page: neither the sentinel nor empty
C33_Real(v) == v \notin {NA, NaN}

C33_CriticalFields == {"COUPANG_PROD_NAME", "PRICE", "ORIGIN_PRICE"}

\* C33: after the merge, every critical field of a row that held a real
\* value when the store was read still holds a real value: a re-crawl
\* result with a critical field at "NA" never replaces it by the sentinel.
C33_SentinelNeverReplacesValue ==
    Merged =>
        \A j \in 1..Len(val_df) :
            \A c \in C33_CriticalFields :
                C33_Real(val_df[j][c])
                    => C33_Real(disk[validated_file_today][j][c])

\* ---------------------------------------------------------------- C34
\* the validated store a finished validation has written
C34_Validated == disk[written[Len(written)].path]

\* C34: the validated store has as many rows as the input store, and each
\* row has the ORIGINAL_INDEX and the URL of the row at its place in the
\* input store.
C34_SameRecords ==
    v_pc = "done" =>
        /\ Len(C34_Validated) = Len(input_store)
        /\ \A k \in 1..Len(input_store) :
              /\ C34_Validated[k].ORIGINAL_INDEX = input_store[k].ORIGINAL_INDEX
              /\ C34_Validated[k].URL = input_store[k].URL

\* ---------------------------------------------------------------- C35
\* C35: every row of the input store that is not an error record by the
\* rule is, in the validated store, the row it was in the input store,
\* whatever other rows share its ORIGINAL_INDEX.
C35_OtherRowsUntouched ==
    v_pc = "done" =>
        \A k \in 1..Len(input_store) :
            ~C12_Rule(input_store[k]) => C34_Validated[k] = input_store[k]

\* ---------------------------------------------------------------- C36
\* the three parts of the proxy are configured
C36_Complete ==
    /\ Truthy(proxy_config.server)
    /\ Truthy(proxy_config.username)
    /\ Truthy(proxy_config.password)

\* the test request returned 200 with the body the code reads
C36_Answered ==
    /\ ~proxy_test.raised
    /\ proxy_test.status_code = 200
    /\ proxy_test.body = "ip info"

C36_Prepared == x_pc \in {"new_context", "returned", "raised"}

\* C36: with the proxy enabled, the context is created with the proxy if
\* and only if server, username and password are set and the test request
\* returned 200 with a readable body; in every other case the context is
\* created without a proxy, and no outcome of the proxy test keeps
\* setup_browser_context from reaching browser.new_context.
C36_ProxyOnlyWhenValidated ==
    /\ []((C36_Prepared /\ proxy_config.enabled)
            => /\ "proxy" \in context_settings
                     <=> (C36_Complete /\ C36_Answered)
               /\ base_settings \subseteq context_settings)
    /\ [][/\ x_pc = "call" => x_pc' = "new_context"
          /\ x_pc' = "raised" => x_pc = "new_context"]_vars

\* a complete proxy whose test answers 200 with a body that is not JSON:
\* the context is created without it
C36_Witness ==
    /\ x_pc = "returned"
    /\ proxy_config.enabled
    /\ C36_Complete
    /\ proxy_test.status_code = 200
    /\ proxy_test.body = "not json"
    /\ "proxy" \notin context_settings

\* ---------------------------------------------------------------- C37
\* the records of a batch are being processed
C37_InRecords == pc \in {"record", "goto", "detect", "extract", "close_browser"}

\* the history of the re-crawl up to its entry j has a browser launched for
\* the batch at offset i and not closed
C37_Running(i, j) ==
    /\ \E l \in 1..(j - 1) : v_log[l] = VEvent("launch", i)
    /\ \A l \in 1..(j - 1) : v_log[l] # VEvent("close", i)

\* C37: a batch of the crawl runs with the one browser launched at its
\* start, which is closed when the batch returns, on a block too, so that
\* no browser is open between two batches or when the validator is called;
\* a batch of the re-crawl launches one browser, every navigation of the
\* batch is made while it runs, and it is closed before the browser of the
\* next batch is launched.
C37_OneBrowserPerBatch ==
    /\ [](pc # "idle" => (browser_open <=> C37_InRecords))
    /\ [][(browser_open' /\ ~browser_open) => pc = "launch"]_vars
    /\ [](\A j \in DOMAIN v_log :
            /\ v_log[j].ev = "goto" =>
                  C37_Running(((v_log[j].at - 1) \div recrawl_batch_size)
                                  * recrawl_batch_size, j)
            /\ v_log[j].ev = "launch" =>
                  /\ \A l \in 1..(j - 1) : v_log[l] # v_log[j]
                  /\ \A l \in 1..(j - 1) :
                        v_log[l].ev = "launch" => ~C37_Running(v_log[l].at, j))

\* the browser of the second batch of a crawl, launched after the first
\* batch returned
C37_Witness ==
    /\ pc = "record"
    /\ batch_idx = 1
    /\ browser_open
    /\ attempted # <<>>

\* ---------------------------------------------------------------- C38
\* the step that ends a record whose last navigation try failed
C38_NavigationGivenUp == pc = "goto" /\ pc' \notin {"goto", "detect", "idle"}

\* C38: in the crawl detect_block is reached only with a 2xx response of
\* the record's last navigation; a record whose navigation tries are used
\* up, the last of them answered 403 or 503 or not at all, gets an error
\* row, sets no block, leaves the checkpoint as it is, and the batch goes
\* on with the next record.
C38_DetectionOnlyAfter2xx ==
    /\ [](pc = "detect" => (nav_response >= 200 /\ nav_response <= 299))
    /\ [][C38_NavigationGivenUp =>
            /\ goto_retry_count' = max_goto_retries
            /\ batch_results' =
                  Append(batch_results,
                         ErrorRow(df_to_process[idx + 1].URL, original_index))
            /\ blocked' = FALSE
            /\ blocked_idx' = None
            /\ status' = status
            /\ pc' = IF idx + 1 < batch_end THEN "record" ELSE "close_browser"
         ]_vars

\* the second record of a batch is next, after a first record whose last
\* navigation try was answered 403
C38_Witness ==
    /\ pc = "record"
    /\ relative_idx = 1
    /\ goto_retry_count = max_goto_retries
    /\ nav_response = 403
    /\ Len(batch_results) = 1
    /\ batch_results[1].ERROR # NoError
    /\ ~blocked
    /\ status.blocked_url_idx = None

\* ---------------------------------------------------------------- C39
\* ceil(n / b) for b >= 1
C39_Ceil(n, b) == (n + b - 1) \div b

\* the iterations of the batch loop so far are at most ceil(N / B); while a
\* batch is processed, its number is one less than the iterations so far
C39_LoopBound ==
    pc # "idle" =>
        /\ Len(preSaves) <= C39_Ceil(total_urls, batch_size)
        /\ InBatch => Len(preSaves) = batch_idx + 1

\* page.goto is called at most 3 times for a record: a call is only made
\* after fewer than 3 failed calls
C39_NavBound ==
    /\ goto_retry_count <= max_goto_retries
    /\ pc = "goto" => goto_retry_count < max_goto_retries

\* every iteration processes at least one record and moves to the next
\* batch number
C39_Progress ==
    /\ [](InBatch => batch_start < batch_end)
    /\ [][pc = "post_status" /\ pc' \in {"loop", "complete"}
            => batch_idx' = batch_idx + 1]_vars

C39_Running == pc \notin {"idle", "finished"}

C40_EmptyRun == pc # "idle" /\ start_index >= end_index

\* nothing was navigated, attempted, stored, checkpointed or validated
C40_NothingDone ==
    /\ pc \in {"loop", "finished"}
    /\ navigated = <<>>
    /\ attempted = <<>>
    /\ Len(store) = storeLen0
    /\ preSaves = <<>>
    /\ postSaves = <<>>
    /\ validatorCalls = 0
    /\ ~browser_open
    /\ ~context_open

\* C40: a run of process_urls whose resolved window is empty (the resolved
\* start index is at or beyond the end index) navigates no page, appends no
\* row, writes no checkpoint and does not invoke validation; the persisted
\* checkpoint and the output file stay exactly as they were.
C40_EmptyWindowDoesNothing ==
    /\ [](C40_EmptyRun => C40_NothingDone)
    /\ [][C40_EmptyRun' => status' = status /\ store' = store]_vars

\* a run with --restart and --validate returned without entering the loop:
\* it resumed from a checkpoint that points at the end of the window
C40_Witness ==
    /\ pc = "finished"
    /\ runEnd = "empty"
    /\ auto_restart
    /\ auto_validate
    /\ status.file_path = xlsx_file_path
    /\ status.blocked_url_idx = None
    /\ status.last_index = end_index
    /\ start_index = end_index
    /\ req_start < start_index

====
